---- MODULE Spec2Model ----
(***************************************************************************)
(* A model of the orchestration core of sleepyTesting:                     *)
(*   - core/event_bus.py   EventBus (subscribe / unsubscribe / publish)    *)
(*   - agents/agent_hub.py AgentHub (agent lifecycle, restart, health)     *)
(*   - agents/controller.py ControllerAgent (driver pool, execute_task)    *)
(*   - core/llm.py         LLMClient (semaphore, retry, generate_steps)    *)
(*   - agents/decomposer.py TaskDecomposer, agents/memory.py MemoryAgent   *)
(*   - core/driver_factory.py, config/config.py  get_driver, PLATFORM      *)
(*   - tools/tool_registry.py ToolRegistry                                 *)
(*   - core/session_manager.py InMemorySessionManager                      *)
(* Each part has its own specification over the shared variable tuple:     *)
(* EventBusSpec, AgentHubSpec, DriverPoolSeqSpec, DriverPoolSpec, ...      *)
(***************************************************************************)
EXTENDS Integers, Sequences, FiniteSets, TLC

(***************************************************************************)
(* Bounds of the model.                                                    *)
(***************************************************************************)
\* bus calls begun in one run, nested calls of handlers included
MaxCalls == 4

(***************************************************************************)
(* EVENT BUS                                                               *)
(***************************************************************************)

\* threads that call the bus
Threads == {"t1", "t2"}
NoThread == "none"

\* event types the callers use (the keys of EventBus._subscribers)
BusEventTypes == {"AGENT_ERROR", "AGENT_RECOVERED"}

\* Callbacks.  A callback is opaque to the bus; two kinds are distinguished:
\* one whose body raises, and one whose body returns, after it has called the
\* bus (subscribe, unsubscribe or publish) once or not at all.  When that
\* call raises, the body ends with its exception.
Callbacks == {"cb_raises", "cb_returns"}

\* exception classes a callback body can end with
NoExc == "none"
ExceptionClasses == {"Exception", "ValueError"}

VARIABLES
    issued,        \* bus calls begun so far
    subscribers,   \* EventBus._subscribers : event type -> list of callbacks
    lock,          \* EventBus._lock : the thread holding it, or NoThread
    stack,         \* per thread, the stack of bus calls in progress
    agent_info,    \* AgentHub.agent_info : agent id -> AgentInfo
    now,           \* datetime.now(), in seconds
    trace,         \* the writes to AgentInfo made by the last hub handler call
    wasShutdown,   \* agents that have reached SHUTDOWN at some time
    constructed,   \* ControllerAgent.__init__ has run
    drivers,       \* ControllerAgent.drivers : (platform, device_id) -> driver
    instances,     \* the drivers get_driver() has made, each with its key
    getting,       \* per thread, its get_or_create_driver call in progress
    handed,        \* the finished get_or_create_driver calls: key and result
    clients,       \* the LLMClient objects made: their max_concurrent_requests
    semaphore,     \* LLMClient._request_semaphore (a class attribute)
    calls,         \* per task, its _call_openai_with_retry call
    gen,           \* one generate_steps call: its inputs and what it did
    task,          \* one execute_task call: its inputs and what it did
    decomp,        \* one decompose_task call: its inputs and its steps
    hubtask,       \* one AgentHub.execute_task call: its inputs and what it did
    mem,           \* the MemoryAgent: its history, its file, its last calls
    opt,           \* one optimize_steps call: its inputs and its result
    fact,          \* driver construction: config constants, environment, pool
    val,           \* one generate_steps call on a one-step response
    reg,           \* the tool registry: its table and the calls made on it
    sess           \* the session manager: its sessions and its last call

busVars == <<issued, subscribers, lock, stack>>
hubVars == <<agent_info, now, trace, wasShutdown>>
poolVars == <<constructed, drivers, instances, getting, handed>>
\* the variables of the parts that come after the bus and the hub
semVars == <<clients, semaphore, calls>>
laterVars == <<poolVars, semVars, gen, task, decomp, hubtask, mem, opt, fact, val, reg, sess>>
vars == <<busVars, hubVars, laterVars>>

\* dict.get(key, [])
Get(subs, ty) == IF ty \in DOMAIN subs THEN subs[ty] ELSE <<>>

\* callback in list
InList(cb, list) == \E i \in 1..Len(list) : list[i] = cb

\* a mutant: every occurrence is dropped
RemoveEvery(list, cb) == SelectSeq(list, LAMBDA x : x # cb)

\* list.remove(cb): drops the first occurrence
RECURSIVE Remove(_, _)
Remove(list, cb) ==
    IF list = <<>> THEN <<>>
    ELSE IF Head(list) = cb THEN Tail(list)
    ELSE <<Head(list)>> \o Remove(Tail(list), cb)

\* a call frame of subscribe / unsubscribe / publish on a thread
Frame(op, ty, cb) ==
    [op |-> op, pc |-> "locked", type |-> ty, cb |-> cb,
     handlers |-> <<>>, idx |-> 0, invoked |-> <<>>, errors |-> 0,
     exc |-> NoExc]

Top(t) == stack[t][Len(stack[t])]
SetTop(t, f) == [stack EXCEPT ![t] = [@ EXCEPT ![Len(@)] = f]]
Push(t, f) == [stack EXCEPT ![t] = Append(@, f)]

BusInit ==
    /\ subscribers = [ty \in {} |-> <<>>]
    /\ lock = NoThread
    /\ issued = 0
    /\ stack = [t \in Threads |-> <<>>]

----
\* A thread calls subscribe(event_type, callback): `with self._lock:` is the
\* first statement.  threading.Lock is not reentrant: the call goes on only
\* when nobody, the caller included, holds the lock.
CallSubscribe(t, ty, cb) ==
    /\ stack[t] = <<>>
    /\ issued < MaxCalls
    /\ issued' = issued + 1
    /\ lock = NoThread
    /\ lock' = t
    /\ stack' = Push(t, Frame("subscribe", ty, cb))
    /\ UNCHANGED subscribers

\* A thread calls unsubscribe(event_type, callback).
CallUnsubscribe(t, ty, cb) ==
    /\ stack[t] = <<>>
    /\ issued < MaxCalls
    /\ issued' = issued + 1
    /\ lock = NoThread
    /\ lock' = t
    /\ stack' = Push(t, Frame("unsubscribe", ty, cb))
    /\ UNCHANGED subscribers

\* A thread calls publish(Event(event_type, payload)).
CallPublish(t, ty) ==
    /\ stack[t] = <<>>
    /\ issued < MaxCalls
    /\ issued' = issued + 1
    /\ lock = NoThread
    /\ lock' = t
    /\ stack' = Push(t, Frame("publish", ty, "none"))
    /\ UNCHANGED subscribers

\* a mutant: the callback is put in front of the list
SubscribeTableInFront(subs, ty, cb) ==
    [k \in DOMAIN subs \cup {ty} |->
        IF k = ty THEN <<cb>> \o Get(subs, ty) ELSE subs[k]]

\* subscribe, inside the lock: create the list if absent, append.
SubscribeTable(subs, ty, cb) ==
    [k \in DOMAIN subs \cup {ty} |->
        IF k = ty THEN Append(Get(subs, ty), cb) ELSE subs[k]]

SubscribeBody(t) ==
    /\ stack[t] # <<>>
    /\ Top(t).op = "subscribe"
    /\ Top(t).pc = "locked"
    /\ subscribers' = SubscribeTable(subscribers, Top(t).type, Top(t).cb)
    /\ lock' = NoThread
    /\ UNCHANGED issued
    /\ stack' = SetTop(t, [Top(t) EXCEPT !.pc = "done"])

\* unsubscribe, inside the lock: does the call raise ValueError?
UnsubscribeRaises(subs, ty, cb) ==
    \/ ty \notin DOMAIN subs
    \/ ~InList(cb, subs[ty])

\* a mutant: the emptied-list cleanup runs although the callback was not found
UnsubscribeTableDropsType(subs, ty, cb) ==
    IF ty \notin DOMAIN subs THEN subs
    ELSE IF Remove(subs[ty], cb) = <<>> \/ ~InList(cb, subs[ty])
         THEN [k \in DOMAIN subs \ {ty} |-> subs[k]]
         ELSE [subs EXCEPT ![ty] = Remove(subs[ty], cb)]

\* unsubscribe, inside the lock: the table after the call
UnsubscribeTable(subs, ty, cb) ==
    IF ty \notin DOMAIN subs THEN subs
    ELSE IF ~InList(cb, subs[ty]) THEN subs
    ELSE IF Remove(subs[ty], cb) = <<>>
         THEN [k \in DOMAIN subs \ {ty} |-> subs[k]]
         ELSE [subs EXCEPT ![ty] = Remove(subs[ty], cb)]

UnsubscribeBody(t) ==
    /\ stack[t] # <<>>
    /\ Top(t).op = "unsubscribe"
    /\ Top(t).pc = "locked"
    /\ subscribers' = UnsubscribeTable(subscribers, Top(t).type, Top(t).cb)
    /\ lock' = NoThread
    /\ UNCHANGED issued
    /\ stack' = SetTop(t, [Top(t) EXCEPT
            !.pc = "done",
            !.exc = IF UnsubscribeRaises(subscribers, Top(t).type, Top(t).cb)
                    THEN "ValueError" ELSE NoExc])

\* a mutant: publish keeps the lock while it dispatches
LockAfterCopyHeld(t) == t

\* publish: the `with` block ends after the copy, which releases the lock
LockAfterCopy(t) == NoThread

\* publish, inside the lock: handlers = self._subscribers.get(type, []).copy()
PublishCopy(t) ==
    /\ stack[t] # <<>>
    /\ Top(t).op = "publish"
    /\ Top(t).pc = "locked"
    /\ stack' = SetTop(t, [Top(t) EXCEPT
            !.pc = "loop",
            !.handlers = Get(subscribers, Top(t).type)])
    /\ lock' = LockAfterCopy(t)
    /\ UNCHANGED <<subscribers, issued>>

\* a mutant: no copy, the loop walks the live list of the table
PublishHandlersLive(f) == Get(subscribers, f.type)

\* the list `for handler in handlers` walks: the copy taken under the lock
PublishHandlers(f) == f.handlers

\* the exception the body of callback cb ends with when it does not call
\* the bus, if any
BodyException(cb) == IF cb = "cb_raises" THEN "Exception" ELSE NoExc

\* a mutant: the except clause names ValueError only
CaughtOnlyValueError(e) == e = "ValueError"

\* `except Exception as e:` around the handler call
Caught(e) == e \in ExceptionClasses

\* publish after `handler(event.payload)` ended with e (NoExc: it returned):
\* an exception the except clause catches is printed and the loop goes on,
\* any other leaves publish
AfterHandler(f, e) ==
    IF e = NoExc THEN [f EXCEPT !.pc = "loop"]
    ELSE IF Caught(e) THEN [f EXCEPT !.pc = "loop", !.errors = @ + 1]
    ELSE [f EXCEPT !.pc = "done", !.exc = e]

\* publish at the head of the loop takes handler number idx + 1
TakeHandler(f, hs) ==
    [f EXCEPT !.pc = "in_handler",
              !.cb = hs[f.idx + 1],
              !.idx = f.idx + 1,
              !.invoked = Append(f.invoked, hs[f.idx + 1])]

\* publish, one turn of the loop with a handler that does not call the bus:
\* the handler is called and ends; after the last handler publish returns.
PublishLoop(t) ==
    /\ stack[t] # <<>>
    /\ Top(t).op = "publish"
    /\ Top(t).pc = "loop"
    /\ LET f == Top(t)
           hs == PublishHandlers(f)
       IN  IF f.idx < Len(hs)
           THEN stack' = SetTop(t,
                    AfterHandler(TakeHandler(f, hs), BodyException(hs[f.idx + 1])))
           ELSE stack' = SetTop(t, [f EXCEPT !.pc = "done"])
    /\ UNCHANGED <<subscribers, lock, issued>>

\* publish, one turn of the loop with a handler that calls the bus from its
\* body, on the same thread: the handler is called and makes its call.
HandlerCallsBus(t, op, ty, cb) ==
    /\ stack[t] # <<>>
    /\ Top(t).op = "publish"
    /\ Top(t).pc = "loop"
    /\ Top(t).idx < Len(PublishHandlers(Top(t)))
    /\ PublishHandlers(Top(t))[Top(t).idx + 1] = "cb_returns"
    /\ (op = "publish") = (cb = "none")
    /\ issued < MaxCalls
    /\ issued' = issued + 1
    /\ lock = NoThread
    /\ lock' = t
    /\ stack' = [stack EXCEPT ![t] =
            Append([@ EXCEPT ![Len(@)] = TakeHandler(Top(t), PublishHandlers(Top(t)))],
                   Frame(op, ty, cb))]
    /\ UNCHANGED subscribers

\* A finished call returns (or raises) to its caller: to the thread's own
\* code, or to the handler that made it, which ends in the same way.
Return(t) ==
    /\ stack[t] # <<>>
    /\ Top(t).pc = "done"
    /\ LET f == Top(t)
           rest == SubSeq(stack[t], 1, Len(stack[t]) - 1)
       IN  IF rest = <<>>
           THEN stack' = [stack EXCEPT ![t] = <<>>]
           ELSE stack' = [stack EXCEPT ![t] =
                    [rest EXCEPT ![Len(rest)] = AfterHandler(@, f.exc)]]
    /\ UNCHANGED <<subscribers, lock, issued>>

(***************************************************************************)
(* Properties of the event bus (checked under EventBusSpec)                *)
(***************************************************************************)

\* every call frame in progress, with its thread
FramesOf(t) == {stack[t][i] : i \in 1..Len(stack[t])}
PublishFrames(t) == {f \in FramesOf(t) : f.op = "publish" /\ f.pc # "locked"}

\* C1: a publish invokes exactly the handlers that were in the event type's
\* list when it copied the list under the lock, in that order: at every
\* moment the handlers invoked so far are the first idx entries of the copy,
\* and a publish that has finished has invoked the whole copy, whatever
\* subscribe and unsubscribe calls changed in the table after the copy.
C1_PublishDeliversSnapshot ==
    \A t \in Threads : \A f \in PublishFrames(t) :
        /\ f.idx <= Len(f.handlers)
        /\ f.invoked = SubSeq(f.handlers, 1, f.idx)
        /\ f.pc = "done" => f.invoked = f.handlers

\* C1, the case: a finished publish that invoked a handler no longer in the
\* table and did not invoke one that is in the table now
C1_Witness ==
    \E t \in Threads : \E f \in PublishFrames(t) :
        /\ f.pc = "done"
        /\ f.invoked # <<>>
        /\ \E i \in 1..Len(f.invoked) :
                ~InList(f.invoked[i], Get(subscribers, f.type))
        /\ \E h \in Callbacks :
                InList(h, Get(subscribers, f.type)) /\ ~InList(h, f.invoked)

\* handlers of the list whose body raises
Raising(list) == {i \in 1..Len(list) : BodyException(list[i]) # NoExc}

\* C2: a handler that raises stops nothing: publish never ends with an
\* exception, a finished publish has called every handler of its list, the
\* ones after a failing handler included, and every failure was caught and
\* printed.
C2_HandlerFailureIsolated ==
    \A t \in Threads : \A f \in PublishFrames(t) :
        /\ f.exc = NoExc
        /\ f.pc = "done" =>
            /\ f.idx = Len(f.handlers)
            /\ Len(f.invoked) = Len(f.handlers)
            /\ f.errors >= Cardinality(Raising(f.handlers))

\* C2, the case: a publish that returned normally although the first
\* handler of its list raised, with another handler called after it
C2_Witness ==
    \E t \in Threads :
        /\ Len(stack[t]) = 1
        /\ Top(t).op = "publish"
        /\ Top(t).pc = "done"
        /\ Top(t).exc = NoExc
        /\ Len(Top(t).handlers) >= 2
        /\ Top(t).handlers[1] = "cb_raises"
        /\ Top(t).invoked = Top(t).handlers
        /\ Top(t).errors >= 1

\* C3: publish never holds the lock while a handler runs.  The lock is held
\* only by a thread whose innermost call is inside its `with` block, a call
\* inside its `with` block is the one holding the lock, and the innermost
\* call of a thread is never a handler waiting: every call in progress,
\* a handler's nested call included, can take its next step.
C3_NoLockWhileDispatching ==
    /\ lock \in Threads =>
            stack[lock] # <<>> /\ Top(lock).pc = "locked"
    /\ \A t \in Threads :
        /\ stack[t] # <<>> =>
            /\ Top(t).pc \in {"locked", "loop", "done"}
            /\ Top(t).pc = "locked" => lock = t
        /\ \A i \in 1..Len(stack[t]) :
                stack[t][i].pc = "in_handler" =>
                    /\ i < Len(stack[t])
                    /\ lock = t => stack[t][Len(stack[t])].pc = "locked"

\* C3, the case: a handler's nested call on the publishing thread has
\* finished while another thread is inside a call of its own
C3_Witness ==
    \E t \in Threads, u \in Threads :
        /\ t # u
        /\ Len(stack[t]) = 2
        /\ stack[t][1].op = "publish"
        /\ stack[t][1].pc = "in_handler"
        /\ stack[t][2].pc = "done"
        /\ stack[u] # <<>>
        /\ Top(u).pc = "locked"

\* thread t leaves the `with` block of an unsubscribe call in this step
UnsubscribeStep(t) ==
    /\ stack[t] # <<>>
    /\ Top(t).op = "unsubscribe"
    /\ Top(t).pc = "locked"
    /\ stack'[t] # stack[t]

\* C4: unsubscribe raises exactly when the type has no subscribers or the
\* handler is not in the type's list, and then the subscriber table after
\* the call is the table before it.
C4_UnsubscribeNotFound ==
    [][\A t \in Threads : UnsubscribeStep(t) =>
        LET f == Top(t)
            g == stack'[t][Len(stack'[t])]
            absent == \/ f.type \notin DOMAIN subscribers
                      \/ \A i \in 1..Len(subscribers[f.type]) :
                            subscribers[f.type][i] # f.cb
        IN  /\ (g.exc = "ValueError") = absent
            /\ absent => subscribers' = subscribers
            /\ lock' = NoThread]_vars

\* C4, the case: an unsubscribe that raised for a type that has subscribers
C4_Witness ==
    \E t \in Threads :
        /\ stack[t] # <<>>
        /\ Top(t).op = "unsubscribe"
        /\ Top(t).pc = "done"
        /\ Top(t).exc = "ValueError"
        /\ Top(t).type \in DOMAIN subscribers


(***************************************************************************)
(* AGENT HUB                                                               *)
(***************************************************************************)

\* AgentHub.ERROR_THRESHOLD, AgentHub.MAX_RETRIES, AgentHub.HEALTH_CHECK_INTERVAL:
\* configuration the hub reads; the model fixes small values.
ERROR_THRESHOLD == 2
MAX_RETRIES == 2
HEALTH_CHECK_INTERVAL == 1
\* error signals are not delivered to an agent whose error_count reached this
MaxErrorCount == 6
\* the clock stops at day MaxDays, second MaxSecs of the day
MaxDays == 1
MaxSecs == 2

\* timedelta.seconds is the seconds part of a duration, days taken out
SecondsPerDay == 86400

\* the agents the hub registers (two of the four kinds _restart_agent rebuilds)
AgentIds == {"decomposer", "supervisor"}
\* dict order of agent_info: the order of registration
AgentOrder == <<"decomposer", "supervisor">>
\* an id no agent is registered under
UnknownAgent == "nobody"

AgentStates == {"INITIALIZING", "READY", "BUSY", "ERROR", "SHUTDOWN"}

\* AgentInfo(id, type, state=INITIALIZING, last_heartbeat=now), counters at 0
NewAgentInfo(t) ==
    [state |-> "INITIALIZING", last_heartbeat |-> t,
     error_count |-> 0, retry_count |-> 0]

\* One line of the trace: the record of agent a after the write at `site`.
\*   error_signal     the record as an error signal (an AGENT_ERROR event, a
\*                    failed health check) finds it
\*   recovered_event  the record as an AGENT_RECOVERED event finds it
\*   transition       _update_agent_state has set state (and error_count)
\*   retry            _handle_agent_failure has incremented retry_count
\*   permanent        _handle_agent_failure has reported the permanent failure
\*   register         _register_agent has put a fresh AgentInfo in the table
\*   reset            _restart_agent has set error_count to 0
\*   failed           _restart_agent has caught the constructor's exception
EntrySites == {"error_signal", "recovered_event"}
Entry(a, site, info) ==
    [agent |-> a, site |-> site, state |-> info.state,
     error_count |-> info.error_count, retry_count |-> info.retry_count]

Log(h, a, site) ==
    [h EXCEPT !.trace = Append(@, Entry(a, site, h.agent_info[a]))]

\* a mutant: the threshold must be exceeded, not reached
ThresholdReachedStrict(info) == info.error_count > ERROR_THRESHOLD

\* `if info.error_count >= self.ERROR_THRESHOLD`
ThresholdReached(info) == info.error_count >= ERROR_THRESHOLD

\* a mutant: a single restart, whatever the budget
CanRetryOnce(info) == info.retry_count < 1

\* a mutant: one restart more than the budget
CanRetryOneMore(info) == info.retry_count <= MAX_RETRIES

\* `if info.retry_count < self.MAX_RETRIES`
CanRetry(info) == info.retry_count < MAX_RETRIES

\* a mutant: entering ERROR leaves the counter alone when it is not zero
ErrorCountAfterSticky(info, st) ==
    IF st = "ERROR" /\ info.error_count = 0 THEN 1 ELSE info.error_count

\* `if state == AgentState.ERROR: info.error_count += 1`
ErrorCountAfter(info, st) ==
    IF st = "ERROR" THEN info.error_count + 1 ELSE info.error_count

\* The hub's calls work on h = [agent_info, trace]; t is datetime.now() and
\* factory[n] tells whether the n-th reconstruction of the agent succeeds.
RECURSIVE UpdateAgentState(_, _, _, _, _)
RECURSIVE HandleAgentFailure(_, _, _, _)
RECURSIVE RestartAgent(_, _, _, _)

\* _update_agent_state(agent_id, state)
UpdateAgentState(h, a, st, t, factory) ==
    LET info == h.agent_info[a]
        h1 == Log([h EXCEPT !.agent_info[a] =
                    [info EXCEPT !.state = st,
                                 !.last_heartbeat = t,
                                 !.error_count = ErrorCountAfter(info, st)]],
                  a, "transition")
    IN  IF st = "ERROR" /\ ThresholdReached(h1.agent_info[a])
        THEN HandleAgentFailure(h1, a, t, factory)
        ELSE h1

\* _register_agent(agent_id, agent): a fresh AgentInfo replaces the record,
\* then the agent is moved to READY
RegisterAgent(h, a, t, factory) ==
    UpdateAgentState(
        Log([h EXCEPT !.agent_info[a] = NewAgentInfo(t)], a, "register"),
        a, "READY", t, factory)

\* _handle_agent_failure(agent_id)
HandleAgentFailure(h, a, t, factory) ==
    IF CanRetry(h.agent_info[a])
    THEN RestartAgent(
            Log([h EXCEPT !.agent_info[a].retry_count = @ + 1], a, "retry"),
            a, t, factory)
    ELSE UpdateAgentState(Log(h, a, "permanent"), a, "SHUTDOWN", t, factory)

\* _restart_agent(agent_id): the agent's constructor runs first; when it
\* raises, nothing has been registered and the except branch runs
RestartAgent(h, a, t, factory) ==
    LET n == h.agent_info[a].retry_count
        built == n \in DOMAIN factory /\ factory[n]
    IN  IF built
        THEN LET h1 == RegisterAgent(h, a, t, factory)
                 h2 == Log([h1 EXCEPT !.agent_info[a].error_count = 0],
                           a, "reset")
             IN  UpdateAgentState(h2, a, "READY", t, factory)
        ELSE UpdateAgentState(Log(h, a, "failed"), a, "ERROR", t, factory)

\* outcomes of the reconstructions one handler call may make: the first k
\* fail and the next one succeeds (a success ends the call's restarts)
Factories ==
    {[n \in 1..(MAX_RETRIES + 1) |-> n > k] : k \in 0..(MAX_RETRIES + 1)}
\* a call that reconstructs nothing
NoFactory == [n \in {} |-> FALSE]

\* the hub before a handler call: the table, and an empty trace
Hub == [agent_info |-> agent_info, trace |-> <<>>]

\* agents the trace shows entering SHUTDOWN
ShutdownIn(tr) ==
    {a \in AgentIds : \E i \in 1..Len(tr) :
        tr[i].agent = a /\ tr[i].site = "transition" /\ tr[i].state = "SHUTDOWN"}

Commit(h) ==
    /\ agent_info' = h.agent_info
    /\ trace' = h.trace
    /\ wasShutdown' = wasShutdown \cup ShutdownIn(h.trace)
    /\ UNCHANGED <<now, busVars>>

HubInit ==
    /\ now = 0
    /\ agent_info = [a \in AgentIds |->
            [NewAgentInfo(0) EXCEPT !.state = "READY"]]
    /\ trace = <<>>
    /\ wasShutdown = {}

----
\* _on_agent_error(payload): an AGENT_ERROR event naming agent a
OnAgentError(a, factory) ==
    /\ a \in DOMAIN agent_info => agent_info[a].error_count < MaxErrorCount
    /\ IF a \in DOMAIN agent_info
       THEN Commit(UpdateAgentState(Log(Hub, a, "error_signal"), a, "ERROR", now, factory))
       ELSE Commit(Hub)

\* _on_agent_recovered(payload): an AGENT_RECOVERED event naming agent a
OnAgentRecovered(a) ==
    IF a \in DOMAIN agent_info
    THEN Commit(UpdateAgentState(Log(Hub, a, "recovered_event"), a, "READY", now, NoFactory))
    ELSE Commit(Hub)

\* (datetime.now() - info.last_heartbeat).seconds > HEALTH_CHECK_INTERVAL
Stale(info, t) ==
    ((t - info.last_heartbeat) % SecondsPerDay) > HEALTH_CHECK_INTERVAL

\* _handle_health_check(payload): the loop over agent_info.items(), agents
\* i..Len(AgentOrder) still to visit
RECURSIVE HealthCheckFrom(_, _, _, _)
HealthCheckFrom(h, i, t, factories) ==
    IF i > Len(AgentOrder) THEN h
    ELSE LET a == AgentOrder[i]
         IN  IF Stale(h.agent_info[a], t)
             THEN HealthCheckFrom(
                    UpdateAgentState(Log(h, a, "error_signal"), a, "ERROR", t, factories[a]),
                    i + 1, t, factories)
             ELSE HealthCheckFrom(h, i + 1, t, factories)

HandleHealthCheck(factories) ==
    /\ \A a \in AgentIds : agent_info[a].error_count < MaxErrorCount
    /\ Commit(HealthCheckFrom(Hub, 1, now, factories))

\* time passes between two handler calls: a second, or a day
Tick(d) ==
    /\ (now + d) \div SecondsPerDay <= MaxDays
    /\ (now + d) % SecondsPerDay <= MaxSecs
    /\ now' = now + d
    /\ trace' = <<>>
    /\ UNCHANGED <<agent_info, wasShutdown, busVars>>

(***************************************************************************)
(* Properties of the agent hub (checked under AgentHubSpec)                *)
(***************************************************************************)

\* the lines of the trace that follow another line of the same handler call
\* on the same agent
Inner == {i \in 2..Len(trace) : trace[i].site \notin EntrySites}

\* the trace shows a write at `site` for agent a
Has(tr, a, site) ==
    \E i \in 1..Len(tr) : tr[i].agent = a /\ tr[i].site = site

\* C5: once an agent's state is SHUTDOWN it never changes again.
C5_ShutdownTerminal ==
    [][\A a \in AgentIds :
        agent_info[a].state = "SHUTDOWN" => agent_info'[a].state = "SHUTDOWN"]_vars

\* C6: an agent enters SHUTDOWN if and only if a restart attempt for it
\* fails while its retry_count equals MAX_RETRIES: every transition into
\* SHUTDOWN is the outcome of such a failed restart (failed, back to ERROR,
\* reported as permanent, SHUTDOWN), and every such failed restart ends there.
C6_ShutdownIffBudgetExhausted ==
    /\ \A i \in 1..Len(trace) :
        (trace[i].site = "transition" /\ trace[i].state = "SHUTDOWN") =>
            /\ i > 3
            /\ trace[i - 3].site = "failed"
            /\ trace[i - 3].agent = trace[i].agent
            /\ trace[i - 3].retry_count = MAX_RETRIES
    /\ \A i \in 1..Len(trace) :
        (trace[i].site = "failed" /\ trace[i].retry_count = MAX_RETRIES) =>
            /\ i + 3 <= Len(trace)
            /\ trace[i + 3].site = "transition"
            /\ trace[i + 3].agent = trace[i].agent
            /\ trace[i + 3].state = "SHUTDOWN"

\* C7: error_count goes up by exactly one on each transition into ERROR and
\* is unchanged by every other transition; it is lowered only to zero and
\* only by a restart whose reconstruction succeeded (the fresh record of
\* the re-registration, then the explicit reset that follows the transition
\* into READY), after which the agent ends the call in READY with
\* error_count zero.  An AGENT_RECOVERED event never changes it.
C7_ErrorCountDiscipline ==
    /\ \A i \in Inner :
        /\ trace[i].site = "transition" =>
              trace[i].error_count =
                  trace[i - 1].error_count
                      + (IF trace[i].state = "ERROR" THEN 1 ELSE 0)
        /\ trace[i].site \notin {"transition", "register", "reset"} =>
              trace[i].error_count = trace[i - 1].error_count
        /\ trace[i].site \in {"register", "reset"} =>
              /\ trace[i].error_count = 0
              /\ Has(trace, trace[i].agent, "retry")
              /\ agent_info[trace[i].agent].state = "READY"
              /\ agent_info[trace[i].agent].error_count = 0
        /\ trace[i].site = "reset" =>
              /\ trace[i - 1].site = "transition"
              /\ trace[i - 1].state = "READY"
    /\ \A i \in 1..Len(trace) :
        trace[i].site = "recovered_event" =>
            /\ i + 1 = Len(trace)
            /\ trace[i + 1].error_count = trace[i].error_count

\* C7, the case: a call in which a restart failed (error_count went on
\* counting) and the next one succeeded (error_count back to zero)
C7_Witness ==
    \E i \in Inner, j \in Inner :
        /\ i < j
        /\ trace[i].site = "failed"
        /\ trace[j].site = "reset"
        /\ trace[j].agent = trace[i].agent
        /\ trace[i + 1].error_count = ERROR_THRESHOLD + 1
        /\ agent_info[trace[j].agent].error_count = 0

\* C8: retry_count never decreases as long as the agent has not reached
\* SHUTDOWN.
C8_RetryCountMonotone ==
    \A i \in Inner :
        trace[i].agent \notin wasShutdown =>
            trace[i].retry_count >= trace[i - 1].retry_count

RetryWithinBudget ==
    /\ \A a \in AgentIds : agent_info[a].retry_count <= MAX_RETRIES
    /\ \A i \in 1..Len(trace) : trace[i].retry_count <= MAX_RETRIES

\* a failed reconstruction puts the agent back in ERROR, counters not reset
FailedRestartKeepsCounters ==
    \A i \in 1..Len(trace) :
        trace[i].site = "failed" =>
            /\ i > 1 /\ i + 1 <= Len(trace)
            /\ trace[i].error_count = trace[i - 1].error_count
            /\ trace[i].retry_count = trace[i - 1].retry_count
            /\ trace[i + 1].site = "transition"
            /\ trace[i + 1].state = "ERROR"
            /\ trace[i + 1].error_count = trace[i].error_count + 1
            /\ trace[i + 1].retry_count = trace[i].retry_count

\* C10: a failed reconstruction puts the agent back in ERROR without
\* resetting error_count or retry_count; retry_count never exceeds
\* MAX_RETRIES; and no reconstruction is attempted for an agent that has
\* reached SHUTDOWN, in the call that shut it down or in any later one.
C10_BoundedRestarts ==
    [][/\ RetryWithinBudget'
       /\ FailedRestartKeepsCounters'
       /\ \A a \in wasShutdown :
            \A i \in 1..Len(trace') :
                trace'[i].agent = a =>
                    trace'[i].site \notin {"retry", "register", "reset", "failed"}
       /\ \A i \in 1..Len(trace'), j \in 1..Len(trace') :
            (/\ i < j
             /\ trace'[i].agent = trace'[j].agent
             /\ trace'[i].state = "SHUTDOWN") =>
                trace'[j].site \notin {"retry", "register", "reset", "failed"}]_vars

\* C10, the case: an error signal for an agent that was shut down after
\* MAX_RETRIES failed restarts and later declared recovered
C10_Witness ==
    /\ Len(trace) >= 2
    /\ trace[1].site = "error_signal"
    /\ trace[1].agent \in wasShutdown
    /\ trace[1].state = "READY"
    /\ trace[1].retry_count = MAX_RETRIES
    /\ agent_info[trace[1].agent].state = "SHUTDOWN"


(***************************************************************************)
(* DRIVER POOL (ControllerAgent.drivers, get_or_create_driver)             *)
(***************************************************************************)

\* get_or_create_driver calls begun in one run
MaxPoolCalls == 3

\* threads that call get_or_create_driver on one controller
PoolThreads == {"p1", "p2"}

\* Python's None, as a platform or a device id
None == "None"
\* step.platform and step.device_id of the steps handed to the controller
Platforms == {None, "android", "ios"}
DeviceIds == {None, "A123"}
\* key = (step.platform, step.device_id)
DriverKeys == Platforms \X DeviceIds
DefaultKey == <<None, None>>

\* A driver object is a number: 0 is the default_executor given to the
\* constructor, h >= 1 is the h-th object get_driver() returned.
DefaultExecutor == 0
\* the result of a call that raised instead of returning a driver
Raised == -1

IdleGetting == [pc |-> "idle", key |-> DefaultKey, driver |-> Raised]

PoolInit ==
    /\ constructed = FALSE
    /\ drivers = [k \in {} |-> DefaultExecutor]
    /\ instances = <<>>
    /\ getting = [t \in PoolThreads |-> IdleGetting]
    /\ handed = <<>>

----
\* ControllerAgent.__init__: an empty map, or the default executor under
\* the key (None, None)
ControllerInit(default_given) ==
    /\ ~constructed
    /\ constructed' = TRUE
    /\ drivers' = IF default_given
                  THEN [k \in {DefaultKey} |-> DefaultExecutor]
                  ELSE [k \in {} |-> DefaultExecutor]
    /\ UNCHANGED <<instances, getting, handed>>

\* a mutant: the lookup never finds the key
CachedNever(drv, key) == FALSE

\* `if key in self.drivers` (the test of line 71 repeats it for (None, None))
Cached(drv, key) == key \in DOMAIN drv

\* what creating the driver of a key can end with: get_driver() raises
\* ValueError, driver.connect(device_id) raises, or both succeed
CreateOutcomes(key) ==
    {"ok", "get_driver_raises"}
        \cup (IF key[2] # None THEN {"connect_raises"} ELSE {})

\* self.drivers[key] = driver
StoreDriver(drv, key, d) ==
    [k \in DOMAIN drv \cup {key} |-> IF k = key THEN d ELSE drv[k]]

\* get_or_create_driver calls begun so far
PoolCallsBegun ==
    Len(handed) + Cardinality({t \in PoolThreads : getting[t].pc # "idle"})

\* get_or_create_driver, up to the lookup: a cached driver is returned at
\* once, otherwise the call goes on to create one
Lookup(t, key) ==
    /\ constructed
    /\ getting[t].pc = "idle"
    /\ PoolCallsBegun < MaxPoolCalls
    /\ IF Cached(drivers, key)
       THEN /\ handed' = Append(handed, [key |-> key, driver |-> drivers[key]])
            /\ UNCHANGED getting
       ELSE /\ getting' = [getting EXCEPT ![t] =
                    [pc |-> "create", key |-> key, driver |-> Raised]]
            /\ UNCHANGED handed
    /\ UNCHANGED <<constructed, drivers, instances>>

\* get_or_create_driver: driver = get_driver(), then driver.connect(device_id)
Create(t, outcome) ==
    /\ getting[t].pc = "create"
    /\ outcome \in CreateOutcomes(getting[t].key)
    /\ instances' = IF outcome = "get_driver_raises"
                    THEN instances
                    ELSE Append(instances, getting[t].key)
    /\ IF outcome = "ok"
       THEN /\ getting' = [getting EXCEPT ![t] =
                    [@ EXCEPT !.pc = "store", !.driver = Len(instances) + 1]]
            /\ UNCHANGED handed
       ELSE /\ getting' = [getting EXCEPT ![t] = IdleGetting]
            /\ handed' = Append(handed, [key |-> getting[t].key, driver |-> Raised])
    /\ UNCHANGED <<constructed, drivers>>

\* get_or_create_driver: self.drivers[key] = driver; return driver
Store(t) ==
    /\ getting[t].pc = "store"
    /\ drivers' = StoreDriver(drivers, getting[t].key, getting[t].driver)
    /\ handed' = Append(handed,
            [key |-> getting[t].key, driver |-> getting[t].driver])
    /\ getting' = [getting EXCEPT ![t] = IdleGetting]
    /\ UNCHANGED <<constructed, instances>>

\* get_or_create_driver(step) run from its first line to its return while
\* no other call is in progress
GetOrCreateDriver(key, outcome) ==
    /\ constructed
    /\ \A t \in PoolThreads : getting[t].pc = "idle"
    /\ Len(handed) < MaxPoolCalls
    /\ outcome \in CreateOutcomes(key)
    /\ LET hit == Cached(drivers, key)
           d == IF hit THEN drivers[key]
                ELSE IF outcome = "ok" THEN Len(instances) + 1
                ELSE Raised
       IN  /\ instances' = IF ~hit /\ outcome # "get_driver_raises"
                           THEN Append(instances, key)
                           ELSE instances
           /\ drivers' = IF ~hit /\ outcome = "ok"
                         THEN StoreDriver(drivers, key, d)
                         ELSE drivers
           /\ handed' = Append(handed, [key |-> key, driver |-> d])
    /\ UNCHANGED <<constructed, getting>>

(***************************************************************************)
(* Properties of the driver pool                                           *)
(***************************************************************************)

\* the finished calls that returned a driver
Returned == {i \in 1..Len(handed) : handed[i].driver # Raised}

\* two calls with the same key returned the same driver, two calls with
\* different keys different drivers
HandedByKey ==
    \A i \in Returned, j \in Returned :
        (handed[i].key = handed[j].key) = (handed[i].driver = handed[j].driver)

\* C11 (checked under DriverPoolSeqSpec, calls made one after another): any
\* two calls with the same key return the identical driver and any two
\* calls with different keys distinct drivers; a key that has a driver keeps
\* that driver in every later state, so the set of cached keys only grows;
\* and what a call returns for a key is what the map holds for it.
C11_PoolKeepsOneDriverPerKey ==
    [][/\ HandedByKey'
       /\ \A k \in DOMAIN drivers :
            k \in DOMAIN drivers' /\ drivers'[k] = drivers[k]
       /\ \A i \in Returned' :
            /\ handed'[i].key \in DOMAIN drivers'
            /\ drivers'[handed'[i].key] = handed'[i].driver]_vars

\* C11, the case: three calls, two with one key that got the same created
\* driver, the first of them before and the second after a call with
\* another key that got another driver
C11_Witness ==
    /\ Len(handed) >= 3
    /\ handed[1].key = handed[3].key
    /\ handed[1].driver = handed[3].driver
    /\ handed[1].driver > DefaultExecutor
    /\ handed[2].key # handed[1].key
    /\ handed[2].driver # Raised
    /\ handed[2].driver # handed[1].driver

\* the driver objects get_driver() has made for key k
InstancesOf(k) == {h \in 1..Len(instances) : instances[h] = k}

\* C12 (checked under DriverPoolSpec, calls of two threads interleaved):
\* the driver factory is invoked at most once for a key and every caller
\* of a key receives the same driver.
C12_AtMostOneDriverPerKey ==
    /\ \A k \in DriverKeys : Cardinality(InstancesOf(k)) <= 1
    /\ HandedByKey


(***************************************************************************)
(* LLM CLIENT: the request semaphore (core/llm.py)                         *)
(***************************************************************************)

\* max_concurrent_requests given to a constructor is in 1..MaxConcurrent
MaxConcurrent == 2

\* LLMClient.MAX_RETRIES, the argument of stop_after_attempt
LLM_MAX_RETRIES == 5

\* the LLMClient objects a run may construct
ClientIds == {"clientA", "clientB"}
\* the tasks that call the language model, and the client each one uses
LLMTasks == {"k1", "k2", "k3"}
ClientOf == [k \in LLMTasks |-> IF k = "k3" THEN "clientB" ELSE "clientA"]

\* the classes of openai.error a remote invocation can raise; each derives
\* from OpenAIError directly
OpenAIErrors ==
    {"RateLimitError", "APIError", "ServiceUnavailableError", "Timeout",
     "APIConnectionError", "InvalidRequestError", "AuthenticationError"}

\* a mutant: invalid requests are retried as well
TransientOrInvalid(e) ==
    e \in {"RateLimitError", "APIError", "ServiceUnavailableError", "Timeout",
           "InvalidRequestError"}

\* retry_if_exception_type((RateLimitError, APIError,
\*                          ServiceUnavailableError, Timeout))
Transient(e) ==
    e \in {"RateLimitError", "APIError", "ServiceUnavailableError", "Timeout"}

\* a mutant: one attempt fewer
StopOneEarlier(attempt) == attempt >= LLM_MAX_RETRIES - 1

\* stop_after_attempt(MAX_RETRIES): no attempt follows attempt number MAX_RETRIES
StopAfterAttempt(attempt) == attempt >= LLM_MAX_RETRIES

\* `_request_semaphore: Optional[asyncio.Semaphore] = None`
NoSemaphore == [made |-> FALSE, limit |-> 0, value |-> 0]

IdleCall == [pc |-> "idle", attempts |-> 0]

SemaphoreInit ==
    /\ clients = [c \in {} |-> 0]
    /\ semaphore = NoSemaphore
    /\ calls = [k \in LLMTasks |-> IdleCall]

----
\* LLMClient.__init__: the first client made creates the class-wide
\* semaphore with its own max_concurrent_requests
NewClient(c, max_concurrent_requests) ==
    /\ c \notin DOMAIN clients
    /\ clients' = [x \in DOMAIN clients \cup {c} |->
                    IF x = c THEN max_concurrent_requests ELSE clients[x]]
    /\ semaphore' = IF ~semaphore.made
                    THEN [made |-> TRUE,
                          limit |-> max_concurrent_requests,
                          value |-> max_concurrent_requests]
                    ELSE semaphore
    /\ UNCHANGED calls

\* a task calls _call_openai_with_retry on its client: the first attempt
\* arrives at `async with LLMClient._request_semaphore`
StartCall(k) ==
    /\ ClientOf[k] \in DOMAIN clients
    /\ calls[k].pc = "idle"
    /\ calls' = [calls EXCEPT ![k] = [pc |-> "waiting", attempts |-> 0]]
    /\ UNCHANGED <<clients, semaphore>>

\* a mutant: acquire never blocks
CanAcquireAlways(sem) == TRUE

\* asyncio.Semaphore.acquire returns when the counter is positive
CanAcquire(sem) == sem.value > 0

\* the semaphore is acquired and openai.ChatCompletion.acreate is called
Acquire(k) ==
    /\ calls[k].pc = "waiting"
    /\ CanAcquire(semaphore)
    /\ semaphore' = [semaphore EXCEPT !.value = @ - 1]
    /\ calls' = [calls EXCEPT ![k] =
            [pc |-> "in_flight", attempts |-> calls[k].attempts + 1]]
    /\ UNCHANGED clients

\* a mutant: the slot is given back only when the invocation returned
ValueAfterExitOnSuccess(value, outcome) ==
    IF outcome = "ok" THEN value + 1 ELSE value

\* leaving `async with LLMClient._request_semaphore` releases the
\* semaphore, whether the block returned or raised
ValueAfterExit(value, outcome) == value + 1

\* the remote invocation returns or raises: the `async with` block is left,
\* and the retry wrapper decides whether another attempt follows (it logs a
\* warning and sleeps first)
AttemptEnds(k, outcome) ==
    /\ calls[k].pc = "in_flight"
    /\ semaphore' = [semaphore EXCEPT !.value = ValueAfterExit(@, outcome)]
    /\ calls' = [calls EXCEPT ![k].pc =
            IF outcome # "ok" /\ Transient(outcome)
                              /\ ~StopAfterAttempt(calls[k].attempts)
            THEN "sleeping" ELSE "done"]
    /\ UNCHANGED clients

\* the backoff sleep is over: the next attempt arrives at the semaphore
WakeUp(k) ==
    /\ calls[k].pc = "sleeping"
    /\ calls' = [calls EXCEPT ![k].pc = "waiting"]
    /\ UNCHANGED <<clients, semaphore>>

(***************************************************************************)
(* Properties of the request semaphore (checked under LLMSemaphoreSpec)    *)
(***************************************************************************)

\* the calls whose remote invocation is in progress
InFlight == {k \in LLMTasks : calls[k].pc = "in_flight"}

\* C13: the number of remote invocations in flight, over all clients and
\* tasks, is at most the maximum the process-wide semaphore was configured
\* with (the max_concurrent_requests of the first client made); the free
\* slots are that maximum less the calls in flight; and a call starts its
\* remote invocation only in a step before which fewer calls than the
\* maximum were in flight.
C13_BoundedInFlight ==
    [][/\ Cardinality(InFlight') <= semaphore'.limit
       /\ semaphore'.value = semaphore'.limit - Cardinality(InFlight')
       /\ semaphore'.made => \E c \in DOMAIN clients' :
                                clients'[c] = semaphore'.limit
       /\ \A k \in LLMTasks :
            (k \notin InFlight /\ k \in InFlight') =>
                Cardinality(InFlight) < semaphore.limit]_vars

\* C13, the case: the limit is reached by calls of two different clients
\* and a third call, a retry, waits at the semaphore
C13_Witness ==
    /\ Cardinality(InFlight) = semaphore.limit
    /\ \E j \in InFlight, k \in InFlight : ClientOf[j] # ClientOf[k]
    /\ \E k \in LLMTasks : calls[k].pc = "waiting" /\ calls[k].attempts > 0

(***************************************************************************)
(* LLM CLIENT: retry and validation of one generate_steps call             *)
(***************************************************************************)

\* the longest batch of steps a response holds
MaxBatch == 3

\* max_retries a client can be constructed with: the default and its
\* neighbours
ConfiguredRetries ==
    {LLM_MAX_RETRIES - 1, LLM_MAX_RETRIES, LLM_MAX_RETRIES + 1}

\* What the remote service does during one call: invocations 1..fails raise
\* an error of class cls, the invocations after them end as `last` says.
Plans ==
    [fails : 0..(LLM_MAX_RETRIES + 1), cls : OpenAIErrors,
     last : {"ok"} \cup OpenAIErrors]
Remote(plan, n) == IF n <= plan.fails THEN plan.cls ELSE plan.last

\* The retry wrapper around _call_openai_with_retry, from attempt n on with
\* w warnings logged so far: a result ends the loop; an exception that is
\* not retried is raised as it is; when stop_after_attempt says stop
\* tenacity raises RetryError; otherwise before_sleep logs a warning and the
\* next attempt follows the sleep.
RECURSIVE RetryLoop(_, _, _)
RetryLoop(plan, n, w) ==
    LET o == Remote(plan, n)
    IN  IF o = "ok"
        THEN [exc |-> NoExc, invocations |-> n, warnings |-> w]
        ELSE IF ~Transient(o)
        THEN [exc |-> o, invocations |-> n, warnings |-> w]
        ELSE IF StopAfterAttempt(n)
        THEN [exc |-> "RetryError", invocations |-> n, warnings |-> w]
        ELSE RetryLoop(plan, n + 1, w + 1)

\* The steps of a response.  A well-formed step is written as its action; a
\* step the per-step checks reject is written as the check that rejects it.
AuthActions == {"send_message", "check_notifications"}
Actions == {"login", "click"} \cup AuthActions
Malformed == {"not_dict", "missing_fields", "bad_platform", "bad_device"}
Batches == UNION {[1..n -> Actions \cup Malformed] : n \in 0..MaxBatch}
\* response.choices[0].message.content: text that is no JSON, or a JSON
\* list of steps
Responses ==
    {[body |-> "garbage", batch |-> <<>>]}
        \cup {[body |-> "json", batch |-> b] : b \in Batches}
NoResponse == [body |-> "none", batch |-> <<>>]

\* Step numbers in messages count from 0 (enumerate); NoIndex: none named
NoIndex == -1

\* a mutant: only send_message requires a login
RequiresAuthOnlySend(action) == action = "send_message"

\* `step.action in actions_requiring_auth`
RequiresAuth(action) == action \in AuthActions

\* the per-step loop: the position of the first step a check rejects, or 0
FirstMalformed(batch) ==
    IF \E i \in 1..Len(batch) : batch[i] \in Malformed
    THEN CHOOSE i \in 1..Len(batch) :
            /\ batch[i] \in Malformed
            /\ \A j \in 1..(i - 1) : batch[j] \notin Malformed
    ELSE 0

\* the ordering loop from position i on: the position of the first step
\* that requires a login while none was seen, or 0
RECURSIVE OrderingScan(_, _, _)
OrderingScan(batch, i, logged_in) ==
    IF i > Len(batch) THEN 0
    ELSE IF batch[i] = "login" THEN OrderingScan(batch, i + 1, TRUE)
    ELSE IF RequiresAuth(batch[i]) /\ ~logged_in THEN i
    ELSE OrderingScan(batch, i + 1, logged_in)

\* generate_steps after the response has arrived: what it raises, why, and
\* the step number its message names
Verdict(r) ==
    IF r.body = "garbage"
    THEN [exc |-> "ValueError", kind |-> "json", index |-> NoIndex]
    ELSE IF FirstMalformed(r.batch) > 0
    THEN [exc |-> "ValueError", kind |-> "step",
          index |-> FirstMalformed(r.batch) - 1]
    ELSE IF r.batch = <<>>
    THEN [exc |-> "ValueError", kind |-> "empty", index |-> NoIndex]
    ELSE IF OrderingScan(r.batch, 1, FALSE) > 0
    THEN [exc |-> "ValueError", kind |-> "ordering",
          index |-> OrderingScan(r.batch, 1, FALSE) - 1]
    ELSE [exc |-> NoExc, kind |-> "ok", index |-> NoIndex]

\* a mutant: an invalid response makes generate_steps ask the service again
InvocationsRetryingInvalid(n, verdict) ==
    IF verdict.exc = NoExc THEN n ELSE n + 1

\* remote invocations made when generate_steps ends: the validation raises
\* or returns without calling the service
InvocationsAfterValidation(n, verdict) == n

IdleGen ==
    [pc |-> "idle", max_retries |-> LLM_MAX_RETRIES,
     plan |-> [fails |-> 0, cls |-> "APIError", last |-> "ok"],
     exc |-> NoExc, invocations |-> 0, warnings |-> 0,
     response |-> NoResponse, kind |-> "none", index |-> NoIndex]

GenInit == gen = IdleGen

----
\* generate_steps on a client made with max_retries, up to the return of
\* `await self._call_openai_with_retry(...)`: an exception of the call
\* leaves generate_steps through its except clauses, which log and re-raise
GenerateStepsCall ==
    /\ gen.pc = "idle"
    /\ \E max_retries \in ConfiguredRetries, plan \in Plans :
       LET out == RetryLoop(plan, 1, 0)
       IN  gen' = [gen EXCEPT
                !.pc = IF out.exc = NoExc THEN "responded" ELSE "done",
                !.max_retries = max_retries,
                !.plan = plan,
                !.exc = out.exc,
                !.invocations = out.invocations,
                !.warnings = out.warnings]

\* generate_steps from the response r on: parse, validate, return or raise
ValidateResponse ==
    /\ gen.pc = "responded"
    /\ \E r \in Responses :
       LET v == Verdict(r)
       IN  gen' = [gen EXCEPT
                !.pc = "done",
                !.response = r,
                !.exc = v.exc,
                !.kind = v.kind,
                !.index = v.index,
                !.invocations = InvocationsAfterValidation(@, v)]

(***************************************************************************)
(* Properties of generate_steps (checked under LLMClientSpec)              *)
(***************************************************************************)

\* the remote call of generate_steps has returned a response
GotResponse == gen.pc = "responded" \/ gen.response # NoResponse

\* C14: for every k below the retry budget (LLMClient.MAX_RETRIES, the
\* argument of stop_after_attempt), a call whose first k invocations fail
\* with a transient error and whose invocation k + 1 succeeds returns the
\* response after exactly k + 1 invocations, with exactly k warnings logged
\* and no error of the remote call raised.
C14_TransientFailuresThenSuccess ==
    (/\ gen.pc # "idle"
     /\ gen.plan.last = "ok"
     /\ gen.plan.fails < LLM_MAX_RETRIES
     /\ gen.plan.fails > 0 => Transient(gen.plan.cls)) =>
        /\ GotResponse
        /\ gen.invocations = gen.plan.fails + 1
        /\ gen.warnings = gen.plan.fails
        /\ gen.exc \notin OpenAIErrors \cup {"RetryError"}

\* C14, the case: three rate-limit failures, then a success on the fourth
\* invocation, with three warnings
C14_Witness ==
    /\ gen.pc = "responded"
    /\ gen.plan.fails = 3
    /\ gen.plan.cls = "RateLimitError"
    /\ gen.plan.last = "ok"
    /\ gen.invocations = 4
    /\ gen.warnings = 3
    /\ gen.exc = NoExc

\* every invocation the plan allows fails with a transient error
AllTransient(plan) ==
    \A n \in 1..(LLM_MAX_RETRIES + 2) : Transient(Remote(plan, n))

\* C15: a call never makes more attempts than the max_retries its client
\* was configured with; when every attempt fails with a transient error it
\* stops after exactly that many attempts with a fatal error; and no
\* transient error is raised to the caller.
C15_AttemptsWithinConfiguredBudget ==
    gen.pc # "idle" =>
        /\ gen.invocations <= gen.max_retries
        /\ AllTransient(gen.plan) =>
            /\ gen.invocations = gen.max_retries
            /\ gen.exc = "RetryError"
        /\ ~Transient(gen.exc)

\* the failure classes the retry policy names: rate-limited, generic
\* transient API failure, service-unavailable, timeout
C16_TransientClasses ==
    {"RateLimitError", "APIError", "ServiceUnavailableError", "Timeout"}

\* C16: every invocation that was followed by another one failed with a
\* transient class, and a failure of any other class ends the call at that
\* invocation: it is the exception raised, no warning is logged for it and
\* nothing is invoked after it.
C16_OnlyTransientRetried ==
    gen.pc \in {"responded", "done"} =>
        /\ \A n \in 1..(RetryLoop(gen.plan, 1, 0).invocations - 1) :
                Remote(gen.plan, n) \in C16_TransientClasses
        /\ \A n \in 1..LLM_MAX_RETRIES :
            (/\ Remote(gen.plan, n) \notin C16_TransientClasses \cup {"ok"}
             /\ \A m \in 1..(n - 1) : Remote(gen.plan, m) \in C16_TransientClasses) =>
                /\ gen.pc = "done"
                /\ gen.exc = Remote(gen.plan, n)
                /\ gen.invocations = n
                /\ gen.warnings = n - 1

\* C16, the case: two timeouts were retried, the invalid-request error of
\* the third invocation ended the call
C16_Witness ==
    /\ gen.pc = "done"
    /\ gen.plan.fails = 2
    /\ gen.plan.cls = "Timeout"
    /\ gen.exc = "InvalidRequestError"
    /\ gen.invocations = 3
    /\ gen.warnings = 2

\* positions of the steps of batch b that require a login and have no
\* login step before them
Offending(b) ==
    {i \in 1..Len(b) :
        /\ b[i] \in {"send_message", "check_notifications"}
        /\ \A j \in 1..(i - 1) : b[j] # "login"}

\* the response is a non-empty batch of well-formed steps
WellFormedBatch(r) ==
    /\ r.body = "json"
    /\ r.batch # <<>>
    /\ \A i \in 1..Len(r.batch) : r.batch[i] \in Actions

\* C17: a batch of well-formed steps is rejected with a validation error
\* exactly when some step that requires a login has no login step before
\* it; the error names the number (counted from 0) of the first such step;
\* a batch in which a login precedes every such step is accepted, and so is
\* the rejected batch with a login step put in front.  A batch that also
\* holds a step the per-step checks reject is rejected as well.
C17_LoginBeforeAuthActions ==
    /\ (gen.pc = "done" /\ Offending(gen.response.batch) # {}) =>
            gen.exc = "ValueError"
    /\ (gen.pc = "done" /\ WellFormedBatch(gen.response)) =>
        LET b == gen.response.batch
        IN  /\ (Offending(b) # {}) = (gen.exc = "ValueError")
            /\ Offending(b) # {} =>
                /\ gen.kind = "ordering"
                /\ gen.index + 1 \in Offending(b)
                /\ \A i \in Offending(b) : gen.index + 1 <= i
            /\ Offending(b) = {} => gen.exc = NoExc /\ gen.kind = "ok"
            /\ Verdict([body |-> "json", batch |-> <<"login">> \o b]).exc = NoExc

\* C17, the case: check_notifications as second step with the only login
\* after it; the error names step 1
C17_Witness ==
    /\ gen.pc = "done"
    /\ gen.response.batch = <<"click", "check_notifications", "login">>
    /\ gen.exc = "ValueError"
    /\ gen.kind = "ordering"
    /\ gen.index = 1

\* the response fails validation: unparseable body, empty batch, a step
\* that a per-step check rejects, or a step that requires a missing login
InvalidResponse(r) ==
    \/ r.body = "garbage"
    \/ r.batch = <<>>
    \/ \E i \in 1..Len(r.batch) : r.batch[i] \in Malformed
    \/ Offending(r.batch) # {}

MaxSteps == 3

\* The event bus given to the controller: the EventBus of core/event_bus.py,
\* whose publish takes one Event, or a bus whose publish takes an event
\* type and a payload, as execute_task calls it.
BusKinds == {"EventBus", "two_argument_bus"}

\* The steps the decomposer returns, by class and content:
\*   decomposer_step  agents.decomposer.UIStep (no tool_name attribute)
\*   tool_ok          core.models.UIStep with tool_name, the tool succeeds
\*   tool_not_found   ... the registry has no such tool (ValueError)
\*   tool_bad_params  ... validate_params raises ValueError
\*   tool_fails       ... execute raises
\*   ui_models        core.models.UIStep without tool_name (no coordinates
\*                    or element_id attribute)
\*   ui_no_driver     a UI step for whose platform get_driver raises
\*   ui_full          an object with every attribute execute_task reads,
\*                    no tool_name, coordinates set
ToolFailures == {"tool_not_found", "tool_bad_params", "tool_fails"}
ToolSteps == {"tool_ok"} \cup ToolFailures
StepKinds ==
    {"decomposer_step", "ui_models", "ui_no_driver", "ui_full"} \cup ToolSteps
StepSequences == UNION {[1..n -> StepKinds] : n \in 0..MaxSteps}
\* (step.platform, step.device_id) of the UI steps
UIStepKey == <<"android", None>>

\* global_tool_registry.call_tool(step.tool_name, step.tool_params or {})
ToolException(kind) ==
    CASE kind = "tool_not_found" -> "ValueError"
      [] kind = "tool_bad_params" -> "ValueError"
      [] kind = "tool_fails" -> "Exception"
      [] OTHER -> NoExc

\* a mutant: the except clause logs the failure and goes on
ToolFailureSwallowed(kind) == FALSE

\* `except Exception as e: ... raise` around call_tool
ToolFailurePropagates(kind) == ToolException(kind) # NoExc

\* self.event_bus.publish(event_type, payload): EventBus.publish(event)
\* takes one argument and raises TypeError
PublishRaises(bus) == bus = "EventBus"

\* AssertionResult(step=step, passed=True): the model's required fields
\* against the keyword arguments given (`step` is no field of the model)
AssertionResultRequired == {"type", "passed", "message"}
AssertionResultGiven == {"step", "passed"}
AssertionResultRaises == ~(AssertionResultRequired \subseteq AssertionResultGiven)

\* one line of the log of what execute_task did
Did(op, i, arg) == [op |-> op, step |-> i, arg |-> arg]

\* The loop of execute_task from step i on.  st holds the log, the results,
\* the exception that ended the loop with the step that raised it, and the
\* driver pool.
RECURSIVE RunSteps(_, _, _)
RECURSIVE AfterAction(_, _, _)
RunSteps(st, steps, i) ==
    IF i > Len(steps) THEN st
    ELSE
    LET kind == steps[i]
        s1 == [st EXCEPT !.log = Append(@, Did("capture", i, "before"))]
    IN  IF kind = "decomposer_step"
        THEN [s1 EXCEPT !.exc = "AttributeError", !.failed_step = i]
        ELSE IF kind \in ToolSteps
        THEN LET s2 == [s1 EXCEPT !.log = Append(@, Did("call_tool", i, kind))]
             IN  IF ToolFailurePropagates(kind)
                 THEN [s2 EXCEPT !.exc = ToolException(kind), !.failed_step = i]
                 ELSE AfterAction(s2, steps, i)
        ELSE LET hit == Cached(st.drivers, UIStepKey)
                 made == ~hit /\ kind # "ui_no_driver"
                 d == IF hit THEN st.drivers[UIStepKey]
                      ELSE IF made THEN Len(st.instances) + 1
                      ELSE Raised
                 s2 == [s1 EXCEPT
                        !.log = Append(@, Did("get_or_create_driver", i, "driver")),
                        !.instances = IF made THEN Append(@, UIStepKey) ELSE @,
                        !.drivers = IF made THEN StoreDriver(@, UIStepKey, d) ELSE @,
                        !.handed = Append(@, [key |-> UIStepKey, driver |-> d])]
             IN  IF d = Raised
                 THEN [s2 EXCEPT !.exc = "ValueError", !.failed_step = i]
                 ELSE IF kind = "ui_models"
                 THEN [s2 EXCEPT !.exc = "AttributeError", !.failed_step = i]
                 ELSE AfterAction(
                        [s2 EXCEPT !.log = Append(@, Did("click", i, "driver"))],
                        steps, i)

\* after the tool call or the UI action of step i: the after screenshot,
\* STEP_EXECUTED, and the result of the step appended to `results`
AfterAction(st, steps, i) ==
    LET s1 == [st EXCEPT !.log =
                @ \o <<Did("capture", i, "after"),
                       Did("publish", i, "STEP_EXECUTED")>>]
    IN  IF AssertionResultRaises
        THEN [s1 EXCEPT !.exc = "ValidationError", !.failed_step = i]
        ELSE RunSteps([s1 EXCEPT
                        !.log = Append(@, Did("append", i, "result")),
                        !.results = Append(@, [step |-> i, passed |-> TRUE])],
                      steps, i + 1)

IdleTask ==
    [pc |-> "idle", bus |-> "EventBus", steps |-> <<>>, log |-> <<>>,
     results |-> <<>>, published |-> <<>>, exc |-> NoExc, failed_step |-> 0,
     returned |-> FALSE]

TaskInit == task = IdleTask

----
\* execute_task(task_description) on a controller with the given bus, the
\* decomposer returning `steps`
ExecuteTask ==
    /\ constructed
    /\ \A t \in PoolThreads : getting[t].pc = "idle"
    /\ task.pc = "idle"
    /\ \E bus \in BusKinds, steps \in StepSequences :
        IF PublishRaises(bus)
        THEN /\ task' = [task EXCEPT !.pc = "done", !.bus = bus, !.steps = steps,
                                     !.exc = "TypeError"]
             /\ UNCHANGED <<drivers, instances, handed>>
        ELSE LET st == RunSteps(
                        [log |-> <<Did("publish", 0, "TASK_STARTED"),
                                   Did("publish", 0, "OPTIMIZE_STEPS")>>,
                         results |-> <<>>, exc |-> NoExc, failed_step |-> 0,
                         drivers |-> drivers, instances |-> instances,
                         handed |-> handed],
                        steps, 1)
                 completed == st.exc = NoExc
             IN  /\ task' = [task EXCEPT
                        !.pc = "done", !.bus = bus, !.steps = steps,
                        !.log = IF completed
                                THEN Append(st.log, Did("publish", 0, "TASK_COMPLETED"))
                                ELSE st.log,
                        !.results = st.results,
                        !.published = IF completed THEN st.results ELSE <<>>,
                        !.exc = st.exc,
                        !.failed_step = st.failed_step,
                        !.returned = completed]
                 /\ drivers' = st.drivers
                 /\ instances' = st.instances
                 /\ handed' = st.handed
    /\ UNCHANGED <<constructed, getting>>

(***************************************************************************)
(* Properties of the execution pipeline (checked under ControllerSpec)     *)
(***************************************************************************)

\* the lines of the log that record the call of a tool that failed
FailedToolCalls ==
    {n \in 1..Len(task.log) :
        /\ task.log[n].op = "call_tool"
        /\ task.log[n].arg \in {"tool_not_found", "tool_bad_params", "tool_fails"}}

\* C19: when a tool step fails, the call of the tool is the last thing the
\* pipeline does: nothing is done for that step after it (no after
\* screenshot, no STEP_EXECUTED, no result) and nothing for any later step;
\* the tool was called exactly once; the task does not return but raises
\* the tool's exception; TASK_COMPLETED is not published.
C19_ToolFailureAborts ==
    task.pc = "done" =>
        /\ \A n \in FailedToolCalls :
            LET i == task.log[n].step
            IN  /\ n = Len(task.log)
                /\ \A m \in 1..Len(task.log) : task.log[m].step <= i
                /\ Cardinality({m \in 1..Len(task.log) :
                        task.log[m].op = "call_tool" /\ task.log[m].step = i}) = 1
                /\ task.failed_step = i
                /\ task.exc = (IF task.log[n].arg = "tool_fails"
                               THEN "Exception" ELSE "ValueError")
                /\ ~task.returned
                /\ Len(task.results) < i
        /\ \A i \in 1..Len(task.steps) :
            (/\ task.steps[i] \in {"tool_not_found", "tool_bad_params", "tool_fails"}
             /\ \E m \in 1..Len(task.log) : task.log[m].step = i) =>
                \E n \in FailedToolCalls : task.log[n].step = i

\* C19, the case: the tool of the first of three steps fails in execute
C19_Witness ==
    /\ task.pc = "done"
    /\ task.steps = <<"tool_fails", "tool_ok", "ui_full">>
    /\ task.exc = "Exception"
    /\ task.failed_step = 1
    /\ task.log[Len(task.log)] = Did("call_tool", 1, "tool_fails")

\* C20: a sequence whose steps all execute (on a bus that takes the
\* controller's publish calls) runs to completion, and the pipeline
\* returns, and publishes in TASK_COMPLETED, one result per step, in the
\* order of the steps, each for its own step.
C20_OneResultPerStep ==
    (/\ task.pc = "done"
     /\ task.bus = "two_argument_bus"
     /\ \A i \in 1..Len(task.steps) : task.steps[i] \in {"tool_ok", "ui_full"}) =>
        /\ task.returned
        /\ task.log[Len(task.log)] = Did("publish", 0, "TASK_COMPLETED")
        /\ task.published = task.results
        /\ Len(task.results) = Len(task.steps)
        /\ \A i \in 1..Len(task.results) : task.results[i].step = i

(***************************************************************************)
(* TASK DECOMPOSER (TaskDecomposer.decompose_task)                         *)
(*                                                                         *)
(* A string is a sequence of tokens; each token stands for the characters  *)
(* of its name.  No token contains another, so `x in s` is membership.     *)
(* The Chinese words of the source are written zh_<pinyin>: zh_shebei      *)
(* (device), zh_anzhuo (Android), zh_pingguo (Apple), zh_fasong (send),    *)
(* zh_chashou (check and receive), zh_duanxin (SMS), zh_zai (at/on),       *)
(* zh_shang (on), and zh_comma is the full-width comma U+FF0C.             *)
(***************************************************************************)

\* the most subtasks in one task description
MaxSubtasks == 2

\* the tokens that [A-Za-z0-9]+ matches
Alnum == {"Android", "android", "iOS", "ios", "device",
          "A123", "a123", "B456", "b456"}

\* str.lower(), token by token
LowerToken(tok) ==
    CASE tok = "Android" -> "android"
      [] tok = "iOS" -> "ios"
      [] tok = "A123" -> "a123"
      [] tok = "B456" -> "b456"
      [] tok = "iPhone" -> "iphone"
      [] OTHER -> tok
Lower(str) == [i \in 1..Len(str) |-> LowerToken(str[i])]

\* `tok in str`
Contains(str, tok) == \E i \in 1..Len(str) : str[i] = tok

\* str.split(sep): the pieces between the occurrences of sep
RECURSIVE Split(_, _)
Split(str, sep) ==
    IF ~Contains(str, sep) THEN <<str>>
    ELSE LET i == CHOOSE j \in 1..Len(str) :
                    str[j] = sep /\ \A k \in 1..(j - 1) : str[k] # sep
         IN  <<SubSeq(str, 1, i - 1)>> \o Split(SubSeq(str, i + 1, Len(str)), sep)

\* str.strip()
RECURSIVE Strip(_)
Strip(str) ==
    IF str = <<>> THEN str
    ELSE IF Head(str) = " " THEN Strip(Tail(str))
    ELSE IF str[Len(str)] = " " THEN Strip(SubSeq(str, 1, Len(str) - 1))
    ELSE str

\* re.findall(r'([A-Za-z0-9]+)', str)[0]: the first maximal run of
\* alphanumeric characters, <<>> when there is none
FirstMatch(str) ==
    IF \A i \in 1..Len(str) : str[i] \notin Alnum THEN <<>>
    ELSE LET a == CHOOSE j \in 1..Len(str) :
                    str[j] \in Alnum /\ \A k \in 1..(j - 1) : str[k] \notin Alnum
             b == CHOOSE j \in a..Len(str) :
                    /\ \A k \in a..j : str[k] \in Alnum
                    /\ (j = Len(str) \/ str[j + 1] \notin Alnum)
         IN  SubSeq(str, a, b)

\* the device id found in a subtask (lines 60-77 and 94-109), <<>> for None
DetectDevice(subtask) ==
    IF Contains(subtask, "zh_shebei")
    THEN FirstMatch(Split(subtask, "zh_shebei")[2])
    ELSE IF Contains(Lower(subtask), "device")
    THEN FirstMatch(Split(Lower(subtask), "device")[2])
    ELSE <<>>

\* os.getenv(name, default) under the environment env
GetEnv(env, name, default) == IF name \in DOMAIN env THEN env[name] ELSE default

\* the steps one subtask adds to the list
StepsOfSubtask(subtask, env) ==
    LET found == DetectDevice(subtask)
    IN  IF Contains(subtask, "Android") \/ Contains(subtask, "zh_anzhuo")
        THEN LET device_id == IF found # <<>> THEN found
                              ELSE GetEnv(env, "SLEEPYTESTING_ANDROID_DEVICE",
                                          <<"default-android">>)
             IN  <<[action |-> IF Contains(subtask, "zh_fasong")
                               THEN "send_sms" ELSE "check_sms",
                    platform |-> "android",
                    device_id |-> device_id,
                    description |-> <<"Perform action on Android device ">>
                                        \o device_id]>>
        ELSE IF Contains(subtask, "iOS") \/ Contains(subtask, "zh_pingguo")
        THEN LET device_id == IF found # <<>> THEN found
                              ELSE GetEnv(env, "SLEEPYTESTING_IOS_DEVICE",
                                          <<"default-ios">>)
             IN  <<[action |-> IF Contains(subtask, "zh_chashou")
                               THEN "check_sms" ELSE "send_sms",
                    platform |-> "ios",
                    device_id |-> device_id,
                    description |-> <<"Perform action on iOS device ">>
                                        \o device_id]>>
        ELSE <<>>

\* decompose_task(task_description)
RECURSIVE StepsOfSubtasks(_, _)
StepsOfSubtasks(subtasks, env) ==
    IF subtasks = <<>> THEN <<>>
    ELSE StepsOfSubtask(Strip(Head(subtasks)), env)
            \o StepsOfSubtasks(Tail(subtasks), env)
decompose_task(task_description, env) ==
    StepsOfSubtasks(Split(task_description, "zh_comma"), env)

\* The task descriptions given: each subtask is written as
\*   zh_zai [platform word] [device word] [id] zh_shang <verb> zh_duanxin
\* and the subtasks are joined with the full-width comma.
PlatformWords == {None, "Android", "iOS"}
DeviceWords == {None, "zh_shebei", "device"}
IdWords == {None, "A123", "B456"}
Verbs == {"zh_fasong", "zh_chashou"}
Phrases ==
    [platform : PlatformWords, word : DeviceWords, id : IdWords, verb : Verbs]
Opt(tok) == IF tok = None THEN <<>> ELSE <<tok>>
Render(ph) ==
    <<"zh_zai">> \o Opt(ph.platform)
        \o (IF ph.word = "device" THEN <<" ", "device", " ">> ELSE Opt(ph.word))
        \o Opt(ph.id) \o <<"zh_shang", ph.verb, "zh_duanxin">>
RECURSIVE Join(_)
Join(phrases) ==
    IF phrases = <<>> THEN <<>>
    ELSE IF Len(phrases) = 1 THEN Render(phrases[1])
    ELSE Render(phrases[1]) \o <<"zh_comma">> \o Join(Tail(phrases))
PhraseSequences == UNION {[1..n -> Phrases] : n \in 0..MaxSubtasks}

\* the environment: neither default device variable set, or both
Environments ==
    {<<>>,
     [n \in {"SLEEPYTESTING_ANDROID_DEVICE", "SLEEPYTESTING_IOS_DEVICE"} |->
        IF n = "SLEEPYTESTING_ANDROID_DEVICE" THEN <<"emulator-5554">>
        ELSE <<"sim-1">>]}

\* the example of the docstring
ExampleTask ==
    Join(<<[platform |-> "Android", word |-> "zh_shebei", id |-> "A123", verb |-> "zh_fasong"],
           [platform |-> "iOS", word |-> "zh_shebei", id |-> "B456", verb |-> "zh_chashou"]>>)

IdleDecomp == [pc |-> "idle", phrases |-> <<>>, text |-> <<>>, steps |-> <<>>]

DecompInit == decomp = IdleDecomp

----
DecomposeTask ==
    /\ decomp.pc = "idle"
    /\ \E phrases \in PhraseSequences, env \in Environments :
        decomp' = [pc |-> "done", phrases |-> phrases, text |-> Join(phrases),
                   steps |-> decompose_task(Join(phrases), env)]

(***************************************************************************)
(* Properties of the decomposer (checked under DecomposerSpec)             *)
(***************************************************************************)

\* the platform a phrase names, as the steps spell it
NamedPlatform(ph) == IF ph.platform = "Android" THEN "android" ELSE "ios"

\* C21, the example: the task of the docstring gives exactly the two steps
\* send_sms on android A123, then check_sms on ios B456.
C21_ExampleDecomposes ==
    (decomp.pc = "done" /\ decomp.text = ExampleTask) =>
        /\ Len(decomp.steps) = 2
        /\ decomp.steps[1].action = "send_sms"
        /\ decomp.steps[1].platform = "android"
        /\ decomp.steps[1].device_id = <<"A123">>
        /\ decomp.steps[2].action = "check_sms"
        /\ decomp.steps[2].platform = "ios"
        /\ decomp.steps[2].device_id = <<"B456">>

\* C21: for a task whose subtasks each name a platform, decompose_task
\* gives one step per subtask, in the order of the subtasks, step i with
\* the platform named in subtask i and, when subtask i names a device
\* (device word followed by an id), with that device id.
C21_StepsFollowSubtasks ==
    (/\ decomp.pc = "done"
     /\ \A i \in 1..Len(decomp.phrases) : decomp.phrases[i].platform # None) =>
        /\ Len(decomp.steps) = Len(decomp.phrases)
        /\ \A i \in 1..Len(decomp.phrases) :
            /\ decomp.steps[i].platform = NamedPlatform(decomp.phrases[i])
            /\ (decomp.phrases[i].word # None /\ decomp.phrases[i].id # None) =>
                    decomp.steps[i].device_id = <<decomp.phrases[i].id>>

(***************************************************************************)
(* TASK BOUNDARY (AgentHub.execute_task)                                   *)
(***************************************************************************)

\* self.decomposer: the TaskDecomposer of this repository, whose
\* decompose_task is a plain function (awaiting its list raises TypeError),
\* or a decomposer with a coroutine that returns steps or raises
DecomposerKinds == {"TaskDecomposer", "async_decomposer", "async_decomposer_raises"}

\* self.controller: the ControllerAgent of this repository, which has no
\* execute_steps (AttributeError), or a controller whose execute_steps
\* returns a result or raises
ControllerKinds == {"ControllerAgent", "has_execute_steps", "execute_steps_raises"}

\* `steps = await self.decomposer.decompose_task(task_description)`
DecomposeException(d) ==
    CASE d = "TaskDecomposer" -> "TypeError"
      [] d = "async_decomposer_raises" -> "ValueError"
      [] OTHER -> NoExc

\* `result = await self.controller.execute_steps(steps)`
ExecuteStepsException(c) ==
    CASE c = "ControllerAgent" -> "AttributeError"
      [] c = "execute_steps_raises" -> "Exception"
      [] OTHER -> NoExc

\* the payload of the event published in the except clause
ErrorEvent(exc) ==
    [type |-> "ERROR_OCCURRED", source |-> "agent_hub", message |-> exc]

\* the events published without an error payload
PlainEvent(type) == [type |-> type, source |-> "none", message |-> "none"]

IdleHubTask ==
    [pc |-> "idle", bus |-> "EventBus", decomposer |-> "TaskDecomposer",
     controller |-> "ControllerAgent", events |-> <<>>, exc |-> NoExc,
     in_try |-> FALSE, returned |-> FALSE]

HubTaskInit == hubtask = IdleHubTask

----
\* AgentHub.execute_task(task_description, session_id)
HubExecuteTask ==
    /\ hubtask.pc = "idle"
    /\ \E bus \in BusKinds, d \in DecomposerKinds, c \in ControllerKinds :
        LET raised == IF DecomposeException(d) # NoExc
                      THEN DecomposeException(d)
                      ELSE ExecuteStepsException(c)
            started == [hubtask EXCEPT !.pc = "done", !.bus = bus,
                                       !.decomposer = d, !.controller = c]
        IN  hubtask' =
                IF PublishRaises(bus)
                THEN [started EXCEPT !.exc = "TypeError"]
                ELSE IF raised # NoExc
                THEN [started EXCEPT
                        !.events = <<PlainEvent("TASK_STARTED"), ErrorEvent(raised)>>,
                        !.in_try = TRUE,
                        !.exc = raised]
                ELSE [started EXCEPT
                        !.events = <<PlainEvent("TASK_STARTED"),
                                     PlainEvent("TASK_COMPLETED")>>,
                        !.in_try = TRUE,
                        !.returned = TRUE]

(***************************************************************************)
(* Properties of the task boundary (checked under TaskBoundarySpec)        *)
(***************************************************************************)

\* the ERROR_OCCURRED publications of the pipeline and of the hub
PipelineErrorEvents ==
    {n \in 1..Len(task.log) :
        task.log[n].op = "publish" /\ task.log[n].arg = "ERROR_OCCURRED"}
HubErrorEvents ==
    {n \in 1..Len(hubtask.events) : hubtask.events[n].type = "ERROR_OCCURRED"}

\* C22, at the hub: an exception raised inside the try block of
\* AgentHub.execute_task is published as one ERROR_OCCURRED event with
\* source agent_hub and the message of the exception, and re-raised.
C22_HubBoundaryReports ==
    (hubtask.pc = "done" /\ hubtask.in_try /\ ~hubtask.returned) =>
        /\ hubtask.exc # NoExc
        /\ Cardinality(HubErrorEvents) = 1
        /\ \A n \in HubErrorEvents :
            /\ hubtask.events[n].source = "agent_hub"
            /\ hubtask.events[n].message = hubtask.exc

\* C22: every task that ended with an exception raised while it was
\* decomposed or executed published exactly one ERROR_OCCURRED event
\* before the exception reached the caller, in the hub and in the
\* execution pipeline alike.
C22_EveryFailureReported ==
    /\ C22_HubBoundaryReports
    /\ (task.pc = "done" /\ task.failed_step > 0) =>
            Cardinality(PipelineErrorEvents) = 1

(***************************************************************************)
(* PATTERN STORE (MemoryAgent)                                             *)
(***************************************************************************)

\* the most store_step calls on one MemoryAgent
MaxRecords == 3
\* the longest list given to optimize_steps
MaxList == 2

\* coordinates are pairs; NoCoords is `coordinates=None`
NoCoords == <<>>
SPlatforms == {None, "default", "android"}
SDevices == {"A123"}
STargets == {[element_id |-> "btn", coordinates |-> NoCoords],
             [element_id |-> None, coordinates |-> <<1, 2>>]}
SDescriptions == {"tap", "tap again"}

\* the UIStep objects given to the MemoryAgent (agents.decomposer.UIStep;
\* `text` is left at its default, neither method reads it)
Steps ==
    {[action |-> "click", element_id |-> t.element_id,
      coordinates |-> t.coordinates, description |-> d,
      platform |-> p, device_id |-> dev] :
        t \in STargets, d \in SDescriptions, p \in SPlatforms, dev \in SDevices}
StepLists == UNION {[1..n -> Steps] : n \in 0..MaxList}

\* str(coordinates) as an f-string prints it
StrCoords(c) ==
    IF c = NoCoords THEN "None"
    ELSE "(" \o ToString(c[1]) \o ", " \o ToString(c[2]) \o ")"

\* `x or 'default'`
OrDefault(x) == IF x = None THEN "default" ELSE x

\* step_key of store_step (lines 42-46) and of optimize_steps (73-77)
step_key(step) ==
    OrDefault(step.platform) \o ":" \o OrDefault(step.device_id) \o ":"
        \o step.action \o ":"
        \o (IF step.element_id # None THEN step.element_id
            ELSE StrCoords(step.coordinates))

EmptyHistory == [k \in {} |-> 0]

\* a mutant: failing results are stored too
StoreSkippedNever(passed) == FALSE

\* `if not result.passed: return`
StoreSkipped(passed) == ~passed

\* self.history.get(step_key, {}).get("success_count", 0)
SuccessCount(history, key) ==
    IF key \in DOMAIN history THEN history[key].success_count ELSE 0

\* store_step(step, result): the history it leaves
store_step(history, step, passed) ==
    IF StoreSkipped(passed) THEN history
    ELSE LET key == step_key(step)
             entry == [description |-> step.description,
                       platform |-> step.platform,
                       device_id |-> step.device_id,
                       success_count |-> SuccessCount(history, key) + 1,
                       last_success |-> TRUE]
         IN  [k \in DOMAIN history \cup {key} |->
                IF k = key THEN entry ELSE history[k]]

\* a mutant: the count of the pattern is not looked at
UsePatternWhateverCount(pattern) == pattern.last_success

\* `pattern["success_count"] > 0 and pattern["last_success"]`
UsePattern(pattern) == pattern.success_count > 0 /\ pattern.last_success

\* a mutant: the optimized step loses its element reference
OptimizedStepNoElement(step, pattern) ==
    [action |-> step.action, element_id |-> None,
     coordinates |-> step.coordinates, description |-> pattern.description,
     platform |-> pattern.platform, device_id |-> pattern.device_id]

\* UIStep(action=step.action, ..., device_id=pattern["device_id"])
OptimizedStep(step, pattern) ==
    [action |-> step.action, element_id |-> step.element_id,
     coordinates |-> step.coordinates, description |-> pattern.description,
     platform |-> pattern.platform, device_id |-> pattern.device_id]

\* optimize_steps(steps)
RECURSIVE optimize_steps(_, _)
optimize_steps(history, steps) ==
    IF steps = <<>> THEN <<>>
    ELSE LET step == Head(steps)
             key == step_key(step)
         IN  <<IF key \in DOMAIN history /\ UsePattern(history[key])
               THEN OptimizedStep(step, history[key])
               ELSE step>>
                \o optimize_steps(history, Tail(steps))

\* The history files a MemoryAgent can find at storage_path: none, or one
\* entry for the key default:A123:click:btn, written by an earlier run or
\* by hand.
FileKey == "default:A123:click:btn"
FileEntries ==
    {[description |-> "stored tap", platform |-> None, device_id |-> "A123",
      success_count |-> c, last_success |-> l] : c \in {0, 2}, l \in BOOLEAN}
NoFile == [exists |-> FALSE, content |-> EmptyHistory]
Files ==
    {NoFile} \cup
    {[exists |-> TRUE, content |-> [k \in {FileKey} |-> e]] : e \in FileEntries}

\* _load_history()
LoadHistory(file) == IF file.exists THEN file.content ELSE EmptyHistory

\* _save_history()
SaveHistory(history) == [exists |-> TRUE, content |-> history]

NoStep ==
    [action |-> "none", element_id |-> None, coordinates |-> NoCoords,
     description |-> "none", platform |-> None, device_id |-> None]
NoStore == [step |-> NoStep, passed |-> FALSE]
IdleOptimize ==
    [pc |-> "idle", file |-> NoFile, last |-> NoStore,
     history |-> EmptyHistory, input |-> <<>>, output |-> <<>>]

\* made: the agent is constructed; fresh: it found no history file;
\* records: the store_step calls so far; last: the last of them; same:
\* every call so far was for the step of the last; passes: how many of the
\* calls had a passing result
MemInit ==
    mem = [made |-> FALSE, fresh |-> TRUE, history |-> EmptyHistory,
           file |-> NoFile, records |-> 0, last |-> NoStore,
           same |-> TRUE, passes |-> 0]

OptInit == opt = IdleOptimize

----
\* MemoryAgent(storage_path) with `file` at storage_path
NewMemoryAgent(file) ==
    /\ ~mem.made
    /\ mem' = [mem EXCEPT !.made = TRUE, !.fresh = ~file.exists,
                          !.history = LoadHistory(file), !.file = file]

\* store_step(step, result)
StoreStep ==
    /\ mem.made
    /\ mem.records < MaxRecords
    /\ \E step \in Steps, passed \in BOOLEAN :
        LET history == store_step(mem.history, step, passed)
        IN  mem' = [mem EXCEPT
                !.history = history,
                !.file = IF StoreSkipped(passed) THEN @ ELSE SaveHistory(history),
                !.records = @ + 1,
                !.last = [step |-> step, passed |-> passed],
                !.same = mem.records = 0 \/ (@ /\ step = mem.last.step),
                !.passes = IF passed THEN @ + 1 ELSE @]

\* the store_step call made before optimize_steps: none, or one
StoresBefore == {NoStore} \cup [step : Steps, passed : BOOLEAN]

\* the history a MemoryAgent has after loading `file` and the call `store`
HistoryAfter(file, store) ==
    IF store = NoStore THEN LoadHistory(file)
    ELSE store_step(LoadHistory(file), store.step, store.passed)

\* optimize_steps(steps) on a MemoryAgent that loaded `file` and then
\* made the call `store`
OptimizeSteps ==
    /\ opt.pc = "idle"
    /\ \E file \in Files, store \in StoresBefore, steps \in StepLists :
        LET history == HistoryAfter(file, store)
        IN  opt' = [pc |-> "done", file |-> file, last |-> store,
                    history |-> history, input |-> steps,
                    output |-> optimize_steps(history, steps)]

(***************************************************************************)
(* Properties of the pattern store (MemorySpec, OptimizeSpec)              *)
(***************************************************************************)

\* the components the key of a step is made from
Fingerprint(step) ==
    <<step.platform, step.device_id, step.action, step.element_id,
      IF step.element_id # None THEN NoCoords ELSE step.coordinates>>

\* the entry optimize_steps finds for a step: a set with one entry or none
EntryFor(history, step) ==
    IF step_key(step) \in DOMAIN history THEN {history[step_key(step)]} ELSE {}

\* a store_step call has just returned
StoreStepReturns == mem'.records = mem.records + 1

\* C24: store_step(step, passing result) followed by optimize_steps([step])
\* returns one step, with the description, platform and device_id of the
\* stored entry and the action, element reference and coordinates of the
\* input step.
C24_StoreThenOptimizeRoundTrip ==
    (/\ opt.pc = "done"
     /\ opt.last # NoStore
     /\ opt.last.passed
     /\ opt.input = <<opt.last.step>>) =>
        LET step == opt.input[1]
            entry == opt.history[step_key(step)]
        IN  /\ Len(opt.output) = 1
            /\ opt.output[1].description = entry.description
            /\ opt.output[1].platform = entry.platform
            /\ opt.output[1].device_id = entry.device_id
            /\ opt.output[1].action = step.action
            /\ opt.output[1].element_id = step.element_id
            /\ opt.output[1].coordinates = step.coordinates

\* C24, the case: the step stored replaces the entry a history file had
\* for its key, and is then optimized
C24_Witness ==
    /\ opt.pc = "done"
    /\ opt.file.exists
    /\ opt.last # NoStore
    /\ opt.last.passed
    /\ step_key(opt.last.step) = FileKey
    /\ opt.input = <<opt.last.step>>
    /\ opt.output[1].description = opt.last.step.description

\* C25: store_step with a failing result changes neither the history nor
\* the file; with a passing result it changes the entry of the step's key
\* only, whose success_count grows by one (to 1 if there was none) and
\* whose last outcome is success, and the file holds the new history when
\* it returns.  So on an agent that started without a file and recorded one
\* step only, the success_count of the step is the number of its passing
\* records.
C25_StoreStepFrame ==
    /\ [][StoreStepReturns =>
            LET key == step_key(mem'.last.step)
            IN  IF ~mem'.last.passed
                THEN mem'.history = mem.history /\ mem'.file = mem.file
                ELSE /\ DOMAIN mem'.history = DOMAIN mem.history \cup {key}
                     /\ \A k \in DOMAIN mem.history \ {key} :
                            mem'.history[k] = mem.history[k]
                     /\ mem'.history[key].success_count =
                            (IF key \in DOMAIN mem.history
                             THEN mem.history[key].success_count ELSE 0) + 1
                     /\ mem'.history[key].last_success
                     /\ mem'.file.exists
                     /\ mem'.file.content = mem'.history]_vars
    /\ []((mem.fresh /\ mem.same /\ mem.records > 0) =>
            IF mem.passes = 0 THEN mem.history = EmptyHistory
            ELSE mem.history[step_key(mem.last.step)].success_count = mem.passes)

\* C25, the case: two passing records and a failing one of the same step
C25_Witness ==
    /\ mem.fresh
    /\ mem.same
    /\ mem.records = 3
    /\ mem.passes = 2
    /\ ~mem.last.passed
    /\ mem.history[step_key(mem.last.step)].success_count = 2
    /\ mem.file.content = mem.history

\* the step optimize_steps must return for an input step
Expected(history, step) ==
    LET key == step_key(step)
    IN  IF /\ key \in DOMAIN history
           /\ history[key].success_count > 0
           /\ history[key].last_success
        THEN [action |-> step.action, element_id |-> step.element_id,
              coordinates |-> step.coordinates,
              description |-> history[key].description,
              platform |-> history[key].platform,
              device_id |-> history[key].device_id]
        ELSE step

\* C26: optimize_steps returns a list as long as its input; position i is
\* input step i itself when the history has no entry with success_count > 0
\* and last outcome success for its key, and otherwise a step with the
\* input's action, element reference and coordinates and the entry's
\* description, platform and device id.
C26_OptimizePositionwise ==
    opt.pc = "done" =>
        /\ Len(opt.output) = Len(opt.input)
        /\ \A i \in 1..Len(opt.input) :
            opt.output[i] = Expected(opt.history, opt.input[i])

\* C26, the case: a list of two steps, the first rewritten from the entry
\* of a history file, the second unknown to the history and passed through
C26_Witness ==
    /\ opt.pc = "done"
    /\ opt.last = NoStore
    /\ Len(opt.input) = 2
    /\ step_key(opt.input[1]) = FileKey
    /\ opt.output[1].description = "stored tap"
    /\ opt.output[1] # opt.input[1]
    /\ step_key(opt.input[2]) \notin DOMAIN opt.history
    /\ opt.output[2] = opt.input[2]

\* C27: recording a step leaves alone what is looked up for every step
\* that differs from it in platform, device id, action, or element
\* reference or coordinates.
C27_OtherFingerprintsUntouched ==
    [][StoreStepReturns =>
        \A other \in Steps :
            Fingerprint(other) # Fingerprint(mem'.last.step) =>
                EntryFor(mem'.history, other) = EntryFor(mem.history, other)]_vars

(***************************************************************************)
(* PIPELINE AND PATTERN STORE (AgentHub._on_step_executed)                 *)
(***************************************************************************)

\* the methods of MemoryAgent
MemoryAgentMethods ==
    {"__init__", "_load_history", "store_step", "optimize_steps", "_save_history"}

\* `self.memory.store_step_result(step_id, result)`: the call succeeds only
\* if MemoryAgent has the method; otherwise it raises AttributeError
HandlerStores == "store_step_result" \in MemoryAgentMethods

\* the UIStep object of a pipeline step that executes
PatternStep(kind) ==
    [action |-> "click",
     element_id |-> IF kind = "tool_ok" THEN "btn" ELSE None,
     coordinates |-> IF kind = "tool_ok" THEN NoCoords ELSE <<1, 2>>,
     description |-> "tap", platform |-> UIStepKey[1], device_id |-> UIStepKey[2]]

\* _on_step_executed for the STEP_EXECUTED event of one step: the history
\* it leaves
OnStepExecuted(history, step) ==
    IF HandlerStores THEN store_step(history, step, TRUE) ELSE history

\* the handler run for every STEP_EXECUTED publication of a log, in order
RECURSIVE HandleStepEvents(_, _, _)
HandleStepEvents(history, log, steps) ==
    IF log = <<>> THEN history
    ELSE HandleStepEvents(
            IF Head(log).op = "publish" /\ Head(log).arg = "STEP_EXECUTED"
            THEN OnStepExecuted(history, PatternStep(steps[Head(log).step]))
            ELSE history,
            Tail(log), steps)

----
\* execute_task on a bus to which the hub has subscribed _on_step_executed
ExecuteTaskObserved ==
    /\ mem.made
    /\ ExecuteTask
    /\ mem' = [mem EXCEPT
                !.history = HandleStepEvents(@, task'.log, task'.steps)]

(***************************************************************************)
(* Properties of pipeline and pattern store (PipelineStoreSpec)            *)
(***************************************************************************)

\* the steps of the finished task for which STEP_EXECUTED was published
ExecutedSteps ==
    {task'.log[n].step : n \in {m \in 1..Len(task'.log) :
        task'.log[m].op = "publish" /\ task'.log[m].arg = "STEP_EXECUTED"}}

\* C23: when a task ends, the pattern store holds for every step the
\* pipeline executed (the verdict of an executed step is passing) an entry
\* whose success_count is one higher than before the task.
C23_ExecutedStepsRecorded ==
    [][(task.pc = "idle" /\ task'.pc = "done") =>
        \A i \in ExecutedSteps :
            LET key == step_key(PatternStep(task'.steps[i]))
            IN  /\ key \in DOMAIN mem'.history
                /\ mem'.history[key].success_count =
                        SuccessCount(mem.history, key) + 1]_vars

(***************************************************************************)
(* Properties of the agent lifecycle (checked under AgentHubSpec)          *)
(***************************************************************************)

\* the lifecycle edges AgentState is meant to follow
DeclaredEdges ==
    {<<"INITIALIZING", "READY">>, <<"READY", "BUSY">>, <<"BUSY", "READY">>,
     <<"READY", "ERROR">>, <<"BUSY", "ERROR">>,
     <<"ERROR", "READY">>, <<"ERROR", "SHUTDOWN">>}

\* line i of the trace belongs to a restart whose reconstruction succeeded:
\* an earlier line of the same handler call registered the agent anew
AfterRegister(i) ==
    \E j \in 1..(i - 1) :
        /\ trace[j].site = "register"
        /\ trace[j].agent = trace[i].agent
        /\ \A k \in (j + 1)..i : trace[k].site \notin EntrySites

\* C28: whenever a write changes the state of an agent, the change is a
\* declared edge; ERROR to READY happens only in a restart that succeeded,
\* ERROR to SHUTDOWN only with the restart budget used up; and a
\* registration puts the record in INITIALIZING and moves it to READY at
\* once.
C28_DeclaredEdgesOnly ==
    \A i \in Inner :
        LET from == trace[i - 1].state
            to == trace[i].state
        IN  /\ trace[i].site = "register" =>
                /\ to = "INITIALIZING"
                /\ i + 1 <= Len(trace)
                /\ trace[i + 1].site = "transition"
                /\ trace[i + 1].state = "READY"
            /\ (trace[i].site = "transition" /\ from # to) =>
                /\ <<from, to>> \in DeclaredEdges
                /\ (from = "ERROR" /\ to = "READY") => AfterRegister(i)
                /\ (from = "ERROR" /\ to = "SHUTDOWN") =>
                        trace[i].retry_count >= MAX_RETRIES

\* the agents silent for longer than the interval at time t
SilentAgents(t) ==
    {a \in AgentIds : t - agent_info[a].last_heartbeat > HEALTH_CHECK_INTERVAL}

\* a health check runs in this step
HealthCheckRuns == \E fs \in [AgentIds -> Factories] : HandleHealthCheck(fs)

\* C29: a health check forces into ERROR exactly the agents whose
\* last_heartbeat is older than the interval, whatever their state, with
\* error_count + 1 and the restart path at the threshold, and leaves the
\* record of every other agent as it was; the transition refreshes
\* last_heartbeat.
C29_HealthCheckFlagsSilentAgents ==
    [][HealthCheckRuns =>
        /\ \A a \in AgentIds \ SilentAgents(now) :
                agent_info'[a] = agent_info[a]
        /\ \A a \in SilentAgents(now) :
                /\ agent_info'[a].last_heartbeat = now
                /\ \E i \in 1..(Len(trace') - 1) :
                    /\ trace'[i].site = "error_signal"
                    /\ trace'[i].agent = a
                    /\ trace'[i + 1].site = "transition"
                    /\ trace'[i + 1].state = "ERROR"
                    /\ trace'[i + 1].error_count = agent_info[a].error_count + 1
                    /\ (trace'[i + 1].error_count >= ERROR_THRESHOLD) =>
                            /\ i + 2 <= Len(trace')
                            /\ trace'[i + 2].site \in {"retry", "permanent"}]_vars

(***************************************************************************)
(* DRIVER CONSTRUCTION (get_or_create_driver, get_driver, config)          *)
(***************************************************************************)

\* the most get_or_create_driver calls on one controller
MaxFactoryCalls == 2

VALID_PLATFORMS == {"android", "ios", "web"}
VALID_FRAMEWORKS == {"uiautomator2", "appium", "selenium"}

\* PLATFORM_DRIVERS[platform][framework], KeyError when there is none
NoDriverClass == "KeyError"
PLATFORM_DRIVERS(platform, framework) ==
    CASE platform = "android" /\ framework = "uiautomator2" -> "UIAutomatorDriver"
      [] platform = "ios" /\ framework = "appium" -> "iOSDriver"
      [] platform = "web" /\ framework = "selenium" -> "WebDriver"
      [] OTHER -> NoDriverClass

\* get_driver(): the class it instantiates from the module constants
\* PLATFORM and FRAMEWORK, NoDriverClass when it raises ValueError
get_driver(cfg) == PLATFORM_DRIVERS(cfg.PLATFORM, cfg.FRAMEWORK)

\* (step.platform, step.device_id) of the steps
FactoryKeys == ({None} \cup VALID_PLATFORMS) \X DeviceIds

NoCall == [key |-> <<None, None>>, created |-> FALSE, result |-> "none"]

\* imported: config.py has run; PLATFORM, FRAMEWORK: its module constants;
\* environ: os.environ["SLEEPYTESTING_PLATFORM"]; pool: self.drivers, each
\* driver with its class and the device it is connected to; last: the
\* last get_or_create_driver call
FactoryInit ==
    fact = [imported |-> FALSE, PLATFORM |-> "android",
            FRAMEWORK |-> "uiautomator2", environ |-> None,
            pool |-> [k \in {} |-> 0], calls |-> 0, last |-> NoCall]

----
\* os.getenv(name, default)
GetenvOr(value, default) == IF value = None THEN default ELSE value

\* import of config.py with SLEEPYTESTING_PLATFORM = platform and
\* SLEEPYTESTING_FRAMEWORK = framework in the environment, None for a
\* variable that is not set; an invalid value raises and nothing is imported
ImportConfig(platform, framework) ==
    /\ ~fact.imported
    /\ GetenvOr(platform, "android") \in VALID_PLATFORMS
    /\ GetenvOr(framework, "uiautomator2") \in VALID_FRAMEWORKS
    /\ fact' = [fact EXCEPT !.imported = TRUE,
                            !.PLATFORM = GetenvOr(platform, "android"),
                            !.FRAMEWORK = GetenvOr(framework, "uiautomator2"),
                            !.environ = platform]

\* get_or_create_driver(step) from its first line to its return
GetOrCreate ==
    /\ fact.imported
    /\ fact.calls < MaxFactoryCalls
    /\ \E key \in FactoryKeys, connects \in BOOLEAN :
        LET cls == get_driver(fact)
            environ == IF key[1] # None THEN key[1] ELSE fact.environ
            driver == [cls |-> cls, connected |-> key[2]]
        IN  fact' =
              IF key \in DOMAIN fact.pool
              THEN [fact EXCEPT !.calls = @ + 1,
                      !.last = [key |-> key, created |-> FALSE, result |-> "driver"]]
              ELSE IF cls = NoDriverClass
              THEN [fact EXCEPT !.calls = @ + 1, !.environ = environ,
                      !.last = [key |-> key, created |-> FALSE, result |-> "ValueError"]]
              ELSE IF key[2] # None /\ ~connects
              THEN [fact EXCEPT !.calls = @ + 1, !.environ = environ,
                      !.last = [key |-> key, created |-> FALSE, result |-> "Exception"]]
              ELSE [fact EXCEPT !.calls = @ + 1, !.environ = environ,
                      !.pool = [k \in DOMAIN @ \cup {key} |->
                                    IF k = key THEN driver ELSE @[k]],
                      !.last = [key |-> key, created |-> TRUE, result |-> "driver"]]

(***************************************************************************)
(* Properties of driver construction (checked under DriverFactorySpec)     *)
(***************************************************************************)

\* the platform a driver class automates
DriverPlatform(cls) ==
    CASE cls = "UIAutomatorDriver" -> "android"
      [] cls = "iOSDriver" -> "ios"
      [] cls = "WebDriver" -> "web"
      [] OTHER -> "none"

\* C30: a driver that get_or_create_driver constructs for a step naming a
\* platform is a driver of that platform, and for a step naming a device
\* it is connected to that device when it is stored and returned.
C30_DriverOfRequestedPlatform ==
    fact.last.created =>
        LET key == fact.last.key
        IN  /\ key \in DOMAIN fact.pool
            /\ key[1] # None => DriverPlatform(fact.pool[key].cls) = key[1]
            /\ key[2] # None => fact.pool[key].connected = key[2]

(***************************************************************************)
(* Properties of subscription lists (checked under EventBusSpec)           *)
(***************************************************************************)

\* how many times cb occurs in list
Occurrences(cb, list) == Cardinality({i \in 1..Len(list) : list[i] = cb})

\* list without its entry number i
WithoutEntry(list, i) == SubSeq(list, 1, i - 1) \o SubSeq(list, i + 1, Len(list))

\* C31: an unsubscribe that does not raise takes exactly one occurrence of
\* the handler out of the type's list, the other entries keep their order
\* and the lists of the other types stay as they are; the type stays a key
\* of the table exactly when its list is not empty afterwards.  A publish
\* copies the list the table has at that moment and invokes each handler
\* once per occurrence in the copy, so a handler subscribed n times is
\* invoked n-1 times by a publish that follows one unsubscribe.
C31_UnsubscribeRemovesOne ==
    /\ [][\A t \in Threads :
            /\ (UnsubscribeStep(t)
                    /\ ~UnsubscribeRaises(subscribers, Top(t).type, Top(t).cb)) =>
                LET ty == Top(t).type
                    cb == Top(t).cb
                    before == subscribers[ty]
                    after == Get(subscribers', ty)
                IN  /\ Occurrences(cb, after) = Occurrences(cb, before) - 1
                    /\ \E i \in 1..Len(before) :
                            before[i] = cb /\ after = WithoutEntry(before, i)
                    /\ (ty \in DOMAIN subscribers') = (Len(before) > 1)
                    /\ ty \in DOMAIN subscribers' => subscribers'[ty] # <<>>
                    /\ \A k \in BusEventTypes \ {ty} :
                            /\ (k \in DOMAIN subscribers') = (k \in DOMAIN subscribers)
                            /\ Get(subscribers', k) = Get(subscribers, k)
            /\ (stack[t] # <<>> /\ Top(t).op = "publish" /\ Top(t).pc = "locked"
                    /\ stack'[t] # stack[t]) =>
                stack'[t][Len(stack'[t])].handlers = Get(subscribers, Top(t).type)
         ]_vars
    /\ [](\A t \in Threads : \A f \in PublishFrames(t) :
            f.pc = "done" =>
                \A cb \in Callbacks :
                    Occurrences(cb, f.invoked) = Occurrences(cb, f.handlers))

\* C31, the case: a handler subscribed twice, unsubscribed once, and invoked
\* once by the publish made after that
C31_Witness ==
    \E t \in Threads, u \in Threads, ty \in BusEventTypes, cb \in Callbacks :
        /\ t # u
        /\ issued = 4
        /\ Len(stack[u]) = 1
        /\ Top(u).op = "unsubscribe" /\ Top(u).pc = "done" /\ Top(u).exc = NoExc
        /\ Top(u).type = ty /\ Top(u).cb = cb
        /\ Len(stack[t]) = 1
        /\ Top(t).op = "publish" /\ Top(t).pc = "done" /\ Top(t).type = ty
        /\ Top(t).invoked = <<cb>>
        /\ Get(subscribers, ty) = <<cb>>

\* thread t leaves the `with` block of a subscribe call in this step
SubscribeStep(t) ==
    /\ stack[t] # <<>>
    /\ Top(t).op = "subscribe"
    /\ Top(t).pc = "locked"
    /\ stack'[t] # stack[t]

\* thread t leaves the `with` block of a publish call in this step
PublishCopyStep(t) ==
    /\ stack[t] # <<>>
    /\ Top(t).op = "publish"
    /\ Top(t).pc = "locked"
    /\ stack'[t] # stack[t]

\* C32: subscribe never raises and puts the handler at the end of the
\* type's list, whether or not it is in the list already, and changes no
\* other list; a publish walks the list its type had when it took the copy,
\* from the first entry to the last, one invocation per entry, so it
\* invokes no handler that is only in the list of another type.
C32_SubscribeAppendsPublishInOrder ==
    /\ [][\A t \in Threads :
            /\ SubscribeStep(t) =>
                LET ty == Top(t).type
                    g == stack'[t][Len(stack'[t])]
                IN  /\ g.pc = "done" /\ g.exc = NoExc
                    /\ ty \in DOMAIN subscribers'
                    /\ subscribers'[ty] = Append(Get(subscribers, ty), Top(t).cb)
                    /\ \A k \in BusEventTypes \ {ty} :
                            /\ (k \in DOMAIN subscribers') = (k \in DOMAIN subscribers)
                            /\ Get(subscribers', k) = Get(subscribers, k)
            /\ PublishCopyStep(t) =>
                LET g == stack'[t][Len(stack'[t])]
                IN  /\ g.handlers = Get(subscribers, Top(t).type)
                    /\ g.invoked = <<>>
         ]_vars
    /\ [](\A t \in Threads : \A f \in PublishFrames(t) :
            /\ f.idx <= Len(f.handlers)
            /\ Len(f.invoked) = f.idx
            /\ \A i \in 1..f.idx : f.invoked[i] = f.handlers[i]
            /\ f.pc = "done" => f.idx = Len(f.handlers))

\* C32, the case: a handler subscribed twice to one type after another
\* handler, a different handler subscribed to the other type, and a
\* finished publish of the first type
C32_Witness ==
    \E t \in Threads, a \in BusEventTypes, b \in BusEventTypes,
       x \in Callbacks, y \in Callbacks :
        /\ a # b /\ x # y
        /\ Get(subscribers, a) = <<x, x>>
        /\ Get(subscribers, b) = <<y>>
        /\ Len(stack[t]) = 1
        /\ Top(t).op = "publish" /\ Top(t).pc = "done" /\ Top(t).type = a
        /\ Top(t).invoked = <<x, x>>

(***************************************************************************)
(* LLM CLIENT: the per-step checks of generate_steps                       *)
(*                                                                         *)
(* A step of the response is a JSON object: a function from the keys it    *)
(* has to their values.  A task description is a sequence of tokens, as    *)
(* for the decomposer.                                                     *)
(***************************************************************************)

\* the keys a step object can have, with the values tried for each;
\* Absent: the object has no such key; None: JSON null
Absent == "absent"
StepObjectShapes ==
    [action : {Absent, "click"},
     target : {Absent, "btn"},
     tool_name : {Absent, "http_request"},
     platform : {Absent, "android", "ios"},
     device_id : {Absent, None, "A123", "B456"},
     description : {Absent, "tap the button"}]
StepKeys == {"action", "target", "tool_name", "platform", "device_id", "description"}
\* the dict of a shape: its keys are the ones that are not Absent
StepObject(shape) ==
    [k \in {f \in StepKeys : shape[f] # Absent} |-> shape[k]]
StepObjects == {StepObject(shape) : shape \in StepObjectShapes}

\* task descriptions: a verb, then at most one platform word, then at most
\* one device with its id
TaskPlatformWords == {None, "Android", "iPhone", "browser"}
TaskDescriptions ==
    {<<"send">> \o (IF p = None THEN <<>> ELSE <<"on", p>>)
                \o (IF d = None THEN <<>> ELSE <<"device", d>>) :
        p \in TaskPlatformWords, d \in {None, "A123"}}

\* _extract_device_info(task), the task description written `text`: a list of (platform, device_id) pairs
extract_device_info(text) ==
    LET low == Lower(text)
        android == IF Contains(low, "android") THEN <<<<"android", None>>>> ELSE <<>>
        ios == IF Contains(low, "ios") \/ Contains(low, "iphone")
               THEN <<<<"ios", None>>>> ELSE <<>>
        web == IF Contains(low, "web") \/ Contains(low, "browser")
               THEN <<<<"web", None>>>> ELSE <<>>
        devices == android \o ios \o web
    IN  IF devices = <<>> THEN <<<<"android", None>>>> ELSE devices

\* valid_platforms = [d[0] for d in devices]
ValidPlatforms(devices) == {devices[i][1] : i \in 1..Len(devices)}

\* device_ids = [d[1] for d in devices if d[1]]
DetectedDeviceIds(devices) ==
    {devices[i][2] : i \in {j \in 1..Len(devices) : devices[j][2] # None}}

\* UIStep(**step): action, target, platform and description are required
\* fields; a key that is no field of the model is ignored
UIStepRequired == {"action", "target", "platform", "description"}
UIStepRaises(step) == \E f \in UIStepRequired : f \notin DOMAIN step

\* the body of the per-step loop for one step object: the check that
\* raises, or "ok" when the step is appended to validated_steps
ValidateStep(step, devices) ==
    IF "action" \notin DOMAIN step \/ "target" \notin DOMAIN step
    THEN "missing_fields"
    ELSE IF "platform" \in DOMAIN step
            /\ step["platform"] \notin ValidPlatforms(devices)
    THEN "bad_platform"
    ELSE IF "device_id" \in DOMAIN step /\ step["device_id"] # None
            /\ step["device_id"] \notin DetectedDeviceIds(devices)
    THEN "bad_device"
    ELSE IF UIStepRaises(step) THEN "ValidationError"
    ELSE "ok"

IdleVal ==
    [pc |-> "idle", task |-> <<>>, step |-> [k \in {} |-> None],
     devices |-> <<>>, check |-> "none", exc |-> NoExc]

ValInit == val = IdleVal

----
\* generate_steps(task_description) when the service answers with a JSON
\* list of the one step object `step`: the per-step loop accepts the step
\* or raises, every exception leaves generate_steps as ValueError; the
\* ordering loop has nothing to say about a click
GenerateStepsOneStep ==
    /\ val.pc = "idle"
    /\ \E text \in TaskDescriptions, step \in StepObjects :
        LET devices == extract_device_info(text)
            check == ValidateStep(step, devices)
        IN  val' = [pc |-> "done", task |-> text, step |-> step,
                    devices |-> devices, check |-> check,
                    exc |-> IF check = "ok" THEN NoExc ELSE "ValueError"]

(***************************************************************************)
(* Properties of the per-step checks (checked under StepValidationSpec)    *)
(***************************************************************************)

\* the step object passes every check but the one on the minimum fields:
\* it has a description, a platform that was detected, and no device id
OtherwiseValid(step, devices) ==
    /\ "description" \in DOMAIN step
    /\ "platform" \in DOMAIN step
    /\ step["platform"] \in ValidPlatforms(devices)
    /\ "device_id" \notin DOMAIN step

\* the minimum required fields: an action and a target, or a tool name
MinimumFields(step) ==
    \/ "action" \in DOMAIN step /\ "target" \in DOMAIN step
    \/ "tool_name" \in DOMAIN step

\* C33: a step object that is otherwise valid is accepted exactly when it
\* has an action and a target, or a tool name; one that has neither is
\* rejected with a validation error.
C33_MinimumFieldsAccepted ==
    (val.pc = "done" /\ OtherwiseValid(val.step, val.devices)) =>
        (val.exc = NoExc) = MinimumFields(val.step)

\* C33, in the code: a step object without action or target is rejected,
\* with or without a tool name
C33_ActionAndTargetRequired ==
    (val.pc = "done" /\ OtherwiseValid(val.step, val.devices)) =>
        (val.exc = NoExc) =
            ("action" \in DOMAIN val.step /\ "target" \in DOMAIN val.step)

\* the platform a word of a task description names
PlatformOfWord(w) ==
    CASE w = "Android" -> "android"
      [] w = "iPhone" -> "ios"
      [] w = "browser" -> "web"
      [] OTHER -> None

\* the task description names device `id` for platform `platform`
TaskNamesDevice(text, platform, id) ==
    /\ \E i \in 1..Len(text) : PlatformOfWord(text[i]) = platform
    /\ \E i \in 1..(Len(text) - 1) : text[i] = "device" /\ text[i + 1] = id

\* C34: a step that has every required field, for a platform and a device
\* that the task description names, is accepted.
C34_NamedDeviceAccepted ==
    (/\ val.pc = "done"
     /\ UIStepRequired \subseteq DOMAIN val.step
     /\ "device_id" \in DOMAIN val.step
     /\ val.step["device_id"] # None
     /\ TaskNamesDevice(val.task, val.step["platform"], val.step["device_id"])) =>
        val.exc = NoExc

\* C34, in the code: no device id is ever detected, so every step with a
\* device id is rejected
C34_NoDeviceIdDetected ==
    val.pc = "done" =>
        /\ DetectedDeviceIds(val.devices) = {}
        /\ ("device_id" \in DOMAIN val.step /\ val.step["device_id"] # None) =>
                val.exc = "ValueError"

(***************************************************************************)
(* Properties of the order of the pipeline (checked under ControllerSpec)  *)
(***************************************************************************)

\* the lines of the log with the given operation and argument for step i
LogLines(op, i, args) ==
    {n \in 1..Len(task.log) :
        task.log[n].op = op /\ task.log[n].step = i /\ task.log[n].arg \in args}

\* the tool call or the driver action of a step
ActionLines(i) ==
    LogLines("call_tool", i, ToolSteps) \cup LogLines("click", i, {"driver"})

\* every line of ms comes before every line of ns
Before(ms, ns) == \A m \in ms, n \in ns : m < n

\* a task given to a controller whose bus takes its publish calls and whose
\* steps can all be executed
RunnableTask ==
    /\ task.pc = "done"
    /\ task.bus = "two_argument_bus"
    /\ \A i \in 1..Len(task.steps) : task.steps[i] \in {"tool_ok", "ui_full"}

\* C35, the order of what is done: TASK_STARTED is the first line of the
\* log; the lines of a step come in the order before-capture, tool call or
\* driver action, after-capture, STEP_EXECUTED, result appended, each at
\* most once; every line of step i + 1 comes after the result of step i
\* was appended; TASK_COMPLETED comes after every appended result.
C35_OrderOfWhatIsDone ==
    (task.pc = "done" /\ task.log # <<>>) =>
        /\ task.log[1] = Did("publish", 0, "TASK_STARTED")
        /\ \A i \in 1..Len(task.steps) :
            LET b == LogLines("capture", i, {"before"})
                a == ActionLines(i)
                c == LogLines("capture", i, {"after"})
                e == LogLines("publish", i, {"STEP_EXECUTED"})
                v == LogLines("append", i, {"result"})
                next == {n \in 1..Len(task.log) : task.log[n].step = i + 1}
                done == LogLines("publish", 0, {"TASK_COMPLETED"})
            IN  /\ \A x \in {b, a, c, e, v} : Cardinality(x) <= 1
                /\ Before(b, a) /\ Before(a, c) /\ Before(c, e) /\ Before(e, v)
                /\ a # {} => b # {}
                /\ c # {} => a # {}
                /\ e # {} => c # {}
                /\ v # {} => e # {}
                /\ next # {} => v # {}
                /\ Before(v, next)
                /\ Before(v, done)
                /\ Before({1}, b)

\* C35: a task whose steps can all be executed goes through every step in
\* order: TASK_STARTED first, then for each step its before-capture, its
\* tool call or driver action, its after-capture, its STEP_EXECUTED and the
\* appending of its result, nothing of the next step before that, and
\* TASK_COMPLETED after the last result.
C35_StrictlySequential ==
    RunnableTask =>
        /\ C35_OrderOfWhatIsDone
        /\ \A i \in 1..Len(task.steps) :
            /\ LogLines("capture", i, {"before"}) # {}
            /\ ActionLines(i) # {}
            /\ LogLines("capture", i, {"after"}) # {}
            /\ LogLines("publish", i, {"STEP_EXECUTED"}) # {}
            /\ LogLines("append", i, {"result"}) # {}
        /\ task.log[Len(task.log)] = Did("publish", 0, "TASK_COMPLETED")

(***************************************************************************)
(* TOOL REGISTRY (tools/tool_registry.py)                                  *)
(***************************************************************************)

\* the most calls made on one registry
MaxRegistryCalls == 3

ToolNames == {"weather", "http_request"}
\* objects given to register_tool: BaseTool instances whose execute returns
\* or raises, and an object that is no BaseTool
ToolObjects == {"tool_returns", "tool_raises", "not_a_tool"}
\* params given to call_tool: ones validate_params takes, ones it rejects
ToolParams == {"valid", "invalid"}

\* a mutant: a registered name can be registered again
NameTakenNever(tools, name) == FALSE

\* `if name in self._tools`
NameTaken(tools, name) == name \in DOMAIN tools

\* register_tool(name, tool): the exception it raises, if any
RegisterException(tools, name, tool) ==
    IF tool = "not_a_tool" THEN "TypeError"
    ELSE IF NameTaken(tools, name) THEN "ValueError"
    ELSE NoExc

\* register_tool(name, tool): self._tools after the call
RegisterTable(tools, name, tool) ==
    IF RegisterException(tools, name, tool) # NoExc THEN tools
    ELSE [k \in DOMAIN tools \cup {name} |-> IF k = name THEN tool ELSE tools[k]]

\* tool.validate_params(params) raises ValueError
ValidateParamsRaises(params) == params = "invalid"

\* call_tool(name, params): the methods of the tool it invokes, in order,
\* and the exception it ends with
call_tool(tools, name, params) ==
    IF name \notin DOMAIN tools
    THEN [invoked |-> <<>>, exc |-> "ValueError"]
    ELSE IF ValidateParamsRaises(params)
    THEN [invoked |-> <<"validate_params">>, exc |-> "ValueError"]
    ELSE [invoked |-> <<"validate_params", "execute">>,
          exc |-> IF tools[name] = "tool_raises" THEN "Exception" ELSE NoExc]

\* tools: ToolRegistry._tools; history: the calls made, each with the
\* table before and after it
RegistryInit == reg = [tools |-> [k \in {} |-> None], history |-> <<>>]

----
RegisterTool(name, tool) ==
    /\ Len(reg.history) < MaxRegistryCalls
    /\ LET after == RegisterTable(reg.tools, name, tool)
       IN  reg' = [tools |-> after,
                   history |-> Append(reg.history,
                        [op |-> "register_tool", name |-> name, arg |-> tool,
                         before |-> reg.tools, after |-> after,
                         invoked |-> <<>>,
                         exc |-> RegisterException(reg.tools, name, tool)])]

CallTool(name, params) ==
    /\ Len(reg.history) < MaxRegistryCalls
    /\ LET out == call_tool(reg.tools, name, params)
       IN  reg' = [tools |-> reg.tools,
                   history |-> Append(reg.history,
                        [op |-> "call_tool", name |-> name, arg |-> params,
                         before |-> reg.tools, after |-> reg.tools,
                         invoked |-> out.invoked, exc |-> out.exc])]

(***************************************************************************)
(* Properties of the tool registry (checked under ToolRegistrySpec)        *)
(***************************************************************************)

\* C36: call_tool with a name that is not registered raises the not-found
\* error and invokes no method of any tool; with a registered name it
\* invokes validate_params first, and execute only after validate_params
\* returned: when the validation fails execute is not invoked.
\* register_tool with a name that is registered raises and leaves the
\* table as it was.
C36_LookupValidateExecute ==
    \A n \in 1..Len(reg.history) :
        LET c == reg.history[n]
        IN  /\ c.op = "call_tool" =>
                /\ c.after = c.before
                /\ c.name \notin DOMAIN c.before =>
                        c.exc = "ValueError" /\ c.invoked = <<>>
                /\ c.name \in DOMAIN c.before =>
                    /\ c.invoked # <<>>
                    /\ c.invoked[1] = "validate_params"
                    /\ c.arg = "invalid" =>
                            c.exc = "ValueError" /\ c.invoked = <<"validate_params">>
                    /\ c.arg = "valid" =>
                            c.invoked = <<"validate_params", "execute">>
            /\ (c.op = "register_tool" /\ c.name \in DOMAIN c.before) =>
                /\ c.exc # NoExc
                /\ c.after = c.before

\* C36, the case: a tool registered, a second registration under its name
\* refused, and a call of it with parameters its validation rejects
C36_Witness ==
    /\ Len(reg.history) = 3
    /\ reg.history[1].op = "register_tool" /\ reg.history[1].exc = NoExc
    /\ reg.history[2].op = "register_tool"
    /\ reg.history[2].name = reg.history[1].name
    /\ reg.history[2].arg = "tool_raises" /\ reg.history[1].arg = "tool_returns"
    /\ reg.history[2].exc = "ValueError"
    /\ reg.history[3].op = "call_tool"
    /\ reg.history[3].name = reg.history[1].name
    /\ reg.history[3].arg = "invalid"
    /\ reg.history[3].invoked = <<"validate_params">>
    /\ reg.tools = reg.history[1].after

(***************************************************************************)
(* Properties of the restart loop (checked under AgentHubSpec)             *)
(***************************************************************************)

\* the lines of the trace written at `site` for agent a
LinesAt(a, site) ==
    {j \in 1..Len(trace) : trace[j].agent = a /\ trace[j].site = site}

\* C37: an error signal that brings error_count to ERROR_THRESHOLD, in a
\* call in which no reconstruction of the agent succeeds, is followed in
\* that call by exactly MAX_RETRIES restart attempts, numbered 1 to
\* MAX_RETRIES, each of which fails; then the failure is reported as
\* permanent, and when the call returns the agent is in SHUTDOWN with
\* retry_count equal to MAX_RETRIES.
C37_RetriesThenShutdownInOneCall ==
    \A i \in 1..Len(trace) :
        LET a == trace[i].agent
        IN  (/\ trace[i].site = "error_signal"
             /\ i + 1 <= Len(trace)
             /\ trace[i + 1].error_count = ERROR_THRESHOLD
             /\ LinesAt(a, "register") = {}) =>
                /\ Cardinality(LinesAt(a, "retry")) = MAX_RETRIES
                /\ Cardinality(LinesAt(a, "failed")) = MAX_RETRIES
                /\ {trace[j].retry_count : j \in LinesAt(a, "failed")} = 1..MAX_RETRIES
                /\ \A j \in LinesAt(a, "retry") :
                        j + 1 \in LinesAt(a, "failed") /\ j > i
                /\ Cardinality(LinesAt(a, "permanent")) = 1
                /\ \A j \in LinesAt(a, "permanent") :
                        \A k \in LinesAt(a, "failed") : k < j
                /\ agent_info[a].state = "SHUTDOWN"
                /\ agent_info[a].retry_count = MAX_RETRIES
                /\ agent_info[a].error_count = ERROR_THRESHOLD + MAX_RETRIES

\* C37, the case: one AGENT_ERROR event whose call made MAX_RETRIES failed
\* restarts and left the agent in SHUTDOWN
C37_Witness ==
    /\ Len(trace) >= 2
    /\ trace[1].site = "error_signal"
    /\ trace[1].retry_count = 0
    /\ trace[2].error_count = ERROR_THRESHOLD
    /\ Cardinality(LinesAt(trace[1].agent, "failed")) = MAX_RETRIES
    /\ LinesAt(trace[1].agent, "register") = {}
    /\ agent_info[trace[1].agent].state = "SHUTDOWN"
    /\ agent_info[trace[1].agent].retry_count = MAX_RETRIES

(***************************************************************************)
(* Properties of the slots of the semaphore (checked under                 *)
(* LLMSemaphoreSpec)                                                       *)
(***************************************************************************)

\* the calls that are between two attempts, in the backoff sleep
Sleeping == {k \in LLMTasks : calls[k].pc = "sleeping"}

\* C38: the slots taken are exactly the invocations in flight: a call that
\* sleeps between attempts, waits, or has finished holds none, so when no
\* invocation is in flight every slot is free, whatever the calls ended
\* with; an invocation that ends gives its slot back whether it returned,
\* failed with an error that is retried or failed for good; and a call
\* waiting at the semaphore while a slot is held by nobody in flight can
\* acquire it.
C38_SlotHeldOnlyInFlight ==
    /\ [](semaphore.made =>
            /\ semaphore.value = semaphore.limit - Cardinality(InFlight)
            /\ InFlight = {} => semaphore.value = semaphore.limit
            /\ \A k \in LLMTasks :
                (calls[k].pc = "waiting"
                    /\ Cardinality(InFlight) < semaphore.limit) =>
                        CanAcquire(semaphore))
    /\ [][\A k \in LLMTasks :
            (k \in InFlight /\ k \notin InFlight') =>
                /\ semaphore'.value = semaphore.value + 1
                /\ calls'[k].pc \in {"sleeping", "done"}]_vars

\* C38, the case: with one slot, a call makes its first invocation while
\* another call, whose invocation failed, sleeps before its next attempt
C38_Witness ==
    /\ semaphore.made
    /\ semaphore.limit = 1
    /\ semaphore.value = 0
    /\ \E k \in Sleeping, j \in InFlight :
        /\ calls[k].attempts >= 1
        /\ calls[j].attempts = 1

(***************************************************************************)
(* Properties of the end of a task (checked under TaskBoundarySpec)        *)
(***************************************************************************)

\* the publications of an event type in the log of the pipeline
PipelineEvents(type) ==
    {n \in 1..Len(task.log) :
        task.log[n].op = "publish" /\ task.log[n].arg = type}

\* the publications of an event type by AgentHub.execute_task
HubEvents(type) ==
    {n \in 1..Len(hubtask.events) : hubtask.events[n].type = type}

\* the steps STEP_EXECUTED was published for, in the order of publication
StepExecutedSteps ==
    LET lines == SelectSeq([n \in 1..Len(task.log) |-> n],
                           LAMBDA n : n \in PipelineEvents("STEP_EXECUTED"))
    IN  [m \in 1..Len(lines) |-> task.log[lines[m]].step]

\* C39, what the code keeps: no task publishes both terminal events, more
\* than one of either, or TASK_COMPLETED after a failure.
C39_NeverBothTerminalEvents ==
    /\ task.pc = "done" =>
        /\ Cardinality(PipelineEvents("TASK_COMPLETED")
                        \cup PipelineEvents("ERROR_OCCURRED")) <= 1
        /\ task.exc # NoExc => PipelineEvents("TASK_COMPLETED") = {}
    /\ hubtask.pc = "done" =>
        /\ Cardinality(HubEvents("TASK_COMPLETED")
                        \cup HubEvents("ERROR_OCCURRED")) <= 1
        /\ hubtask.exc # NoExc => HubEvents("TASK_COMPLETED") = {}

\* C39: a task that has ended published exactly one terminal event:
\* TASK_COMPLETED when every step ran, ERROR_OCCURRED when a step failed;
\* when the step at position k (counted from 0) failed, STEP_EXECUTED was
\* published for the k steps before it, in their order, and for no other.
C39_ExactlyOneTerminalEvent ==
    /\ C39_NeverBothTerminalEvents
    /\ task.pc = "done" =>
        /\ Cardinality(PipelineEvents("TASK_COMPLETED")
                        \cup PipelineEvents("ERROR_OCCURRED")) = 1
        /\ task.exc = NoExc => Cardinality(PipelineEvents("TASK_COMPLETED")) = 1
        /\ task.failed_step > 0 =>
            /\ Cardinality(PipelineEvents("ERROR_OCCURRED")) = 1
            /\ StepExecutedSteps = [m \in 1..(task.failed_step - 1) |-> m]
    /\ hubtask.pc = "done" =>
        Cardinality(HubEvents("TASK_COMPLETED")
                        \cup HubEvents("ERROR_OCCURRED")) = 1

\* C39, the order of the step events alone: when a tool call or a driver
\* action of the step at position k fails, STEP_EXECUTED was published for
\* the k steps before it, in their order
C39_StepEventsBeforeFailure ==
    (task.pc = "done" /\ task.failed_step > 0
                      /\ task.exc # "ValidationError") =>
        StepExecutedSteps = [m \in 1..(task.failed_step - 1) |-> m]

(***************************************************************************)
(* SESSION MANAGER (core/session_manager.py, InMemorySessionManager)       *)
(***************************************************************************)

\* the most calls made on one session manager
MaxSessionCalls == 4

\* session ids are strings, the empty string among them
SessionIds == {"", "s1", "s2"}
DataKeys == {"k"}
DataValues == {"v1", "v2"}

\* `not self._current_session` is true for None and for the empty string
NoActiveSession(current) == current = None \/ current = ""

NoSessionCall == [op |-> "none", arg |-> "none", exc |-> NoExc, ret |-> "none"]

\* sessions: self._sessions; current: self._current_session; last: the
\* last call and what it raised or returned; before: sessions and current
\* as that call found them
SessionInit ==
    sess = [sessions |-> [s \in {} |-> [k \in {} |-> "none"]],
            current |-> None, calls |-> 0, last |-> NoSessionCall,
            before |-> [sessions |-> [s \in {} |-> [k \in {} |-> "none"]],
                        current |-> None]]

\* the record of a call that raises: nothing is written
SessionRaises(op, arg, exc) ==
    [sess EXCEPT !.calls = @ + 1,
                 !.last = [op |-> op, arg |-> arg, exc |-> exc, ret |-> "none"],
                 !.before = [sessions |-> sess.sessions, current |-> sess.current]]

----
\* start_session(session_id)
StartSession(session_id) ==
    /\ sess.calls < MaxSessionCalls
    /\ sess' =
        IF session_id \in DOMAIN sess.sessions
        THEN SessionRaises("start_session", session_id, "ValueError")
        ELSE [SessionRaises("start_session", session_id, NoExc) EXCEPT
                !.sessions = [s \in DOMAIN sess.sessions \cup {session_id} |->
                                IF s = session_id THEN [k \in {} |-> "none"]
                                ELSE sess.sessions[s]],
                !.current = session_id]

\* get_data(key)
GetData(key) ==
    /\ sess.calls < MaxSessionCalls
    /\ sess' =
        IF NoActiveSession(sess.current)
        THEN SessionRaises("get_data", key, "RuntimeError")
        ELSE IF sess.current \notin DOMAIN sess.sessions
                \/ key \notin DOMAIN sess.sessions[sess.current]
        THEN SessionRaises("get_data", key, "KeyError")
        ELSE [SessionRaises("get_data", key, NoExc) EXCEPT
                !.last.ret = sess.sessions[sess.current][key]]

\* set_data(key, value)
SetData(key, value) ==
    /\ sess.calls < MaxSessionCalls
    /\ sess' =
        IF NoActiveSession(sess.current)
        THEN SessionRaises("set_data", key, "RuntimeError")
        ELSE IF sess.current \notin DOMAIN sess.sessions
        THEN SessionRaises("set_data", key, "KeyError")
        ELSE [SessionRaises("set_data", key, NoExc) EXCEPT
                !.sessions[sess.current] =
                    [k \in DOMAIN @ \cup {key} |-> IF k = key THEN value ELSE @[k]]]

\* end_session()
EndSession ==
    /\ sess.calls < MaxSessionCalls
    /\ sess' =
        IF NoActiveSession(sess.current)
        THEN SessionRaises("end_session", "none", "RuntimeError")
        ELSE IF sess.current \notin DOMAIN sess.sessions
        THEN SessionRaises("end_session", "none", "KeyError")
        ELSE [SessionRaises("end_session", "none", NoExc) EXCEPT
                !.sessions = [s \in DOMAIN sess.sessions \ {sess.current} |->
                                sess.sessions[s]],
                !.current = None]

(***************************************************************************)
(* Properties of the session manager (checked under SessionSpec)           *)
(***************************************************************************)

\* what the claim says of the last call, given the ids it is said for
SessionContract ==
    /\ sess.current = None \/ sess.current \in DOMAIN sess.sessions
    /\ sess.last.exc # NoExc =>
        /\ sess.sessions = sess.before.sessions
        /\ sess.current = sess.before.current
    /\ sess.last.op = "start_session" =>
        (sess.last.exc # NoExc) = (sess.last.arg \in DOMAIN sess.before.sessions)
    /\ sess.last.op \in {"get_data", "set_data", "end_session"} =>
        /\ sess.before.current = None => sess.last.exc = "RuntimeError"
        /\ (sess.last.op = "get_data" /\ sess.before.current # None
                /\ sess.last.arg \notin DOMAIN sess.before.sessions[sess.before.current])
            => sess.last.exc # NoExc
    /\ (sess.last.op = "end_session" /\ sess.before.current # None) =>
        /\ sess.last.exc = NoExc
        /\ DOMAIN sess.sessions = DOMAIN sess.before.sessions \ {sess.before.current}
        /\ \A s \in DOMAIN sess.sessions : sess.sessions[s] = sess.before.sessions[s]
        /\ sess.current = None

\* C40: after any sequence of calls the current session is unset or the id
\* of a session that exists; a call that raises leaves the sessions and
\* the current session as they were; start_session raises exactly for an
\* id that exists, the other calls raise when no session is current, and
\* get_data for a key that is not stored; end_session with a current
\* session deletes that session and its data, no other, and leaves no
\* session current.
C40_SessionContract == SessionContract

\* C40, for ids that are not empty: the same, as long as no session with
\* the empty id was started
C40_NonEmptyIds == "" \notin DOMAIN sess.sessions => SessionContract

(***************************************************************************)
(* Specifications                                                          *)
(***************************************************************************)
Init == BusInit /\ HubInit /\ PoolInit /\ SemaphoreInit /\ GenInit /\ TaskInit
        /\ DecompInit /\ HubTaskInit /\ MemInit /\ OptInit
        /\ FactoryInit /\ ValInit /\ RegistryInit /\ SessionInit

EventBusNext ==
    \/ \E t \in Threads, ty \in BusEventTypes, cb \in Callbacks :
            /\ CallSubscribe(t, ty, cb)
            /\ UNCHANGED <<hubVars, laterVars>>
    \/ \E t \in Threads, ty \in BusEventTypes, cb \in Callbacks :
            /\ CallUnsubscribe(t, ty, cb)
            /\ UNCHANGED <<hubVars, laterVars>>
    \/ \E t \in Threads, ty \in BusEventTypes :
            /\ CallPublish(t, ty)
            /\ UNCHANGED <<hubVars, laterVars>>
    \/ \E t \in Threads : SubscribeBody(t) /\ UNCHANGED <<hubVars, laterVars>>
    \/ \E t \in Threads : UnsubscribeBody(t) /\ UNCHANGED <<hubVars, laterVars>>
    \/ \E t \in Threads : PublishCopy(t) /\ UNCHANGED <<hubVars, laterVars>>
    \/ \E t \in Threads : PublishLoop(t) /\ UNCHANGED <<hubVars, laterVars>>
    \/ \E t \in Threads, op \in {"subscribe", "unsubscribe", "publish"},
          ty \in BusEventTypes, cb \in Callbacks \cup {"none"} :
            /\ HandlerCallsBus(t, op, ty, cb)
            /\ UNCHANGED <<hubVars, laterVars>>
    \/ \E t \in Threads : Return(t) /\ UNCHANGED <<hubVars, laterVars>>

AgentHubNext ==
    \/ \E a \in AgentIds \cup {UnknownAgent}, f \in Factories :
            OnAgentError(a, f) /\ UNCHANGED laterVars
    \/ \E a \in AgentIds \cup {UnknownAgent} :
            OnAgentRecovered(a) /\ UNCHANGED laterVars
    \/ \E fs \in [AgentIds -> Factories] :
            HandleHealthCheck(fs) /\ UNCHANGED laterVars
    \/ \E d \in {1, SecondsPerDay} : Tick(d) /\ UNCHANGED laterVars

\* the parts other than the driver pool
notPoolVars == <<busVars, hubVars, semVars, gen, task, decomp, hubtask, mem, opt, fact, val, reg, sess>>

DriverPoolSeqNext ==
    \/ \E d \in BOOLEAN : ControllerInit(d) /\ UNCHANGED notPoolVars
    \/ \E k \in DriverKeys, o \in {"ok", "get_driver_raises", "connect_raises"} :
            GetOrCreateDriver(k, o) /\ UNCHANGED notPoolVars

DriverPoolNext ==
    \/ \E d \in BOOLEAN : ControllerInit(d) /\ UNCHANGED notPoolVars
    \/ \E t \in PoolThreads, k \in DriverKeys :
            Lookup(t, k) /\ UNCHANGED notPoolVars
    \/ \E t \in PoolThreads, o \in {"ok", "get_driver_raises", "connect_raises"} :
            Create(t, o) /\ UNCHANGED notPoolVars
    \/ \E t \in PoolThreads : Store(t) /\ UNCHANGED notPoolVars

\* the parts other than the request semaphore
notSemVars == <<busVars, hubVars, poolVars, gen, task, decomp, hubtask, mem, opt, fact, val, reg, sess>>

LLMSemaphoreNext ==
    \/ \E c \in ClientIds, n \in 1..MaxConcurrent :
            NewClient(c, n) /\ UNCHANGED notSemVars
    \/ \E k \in LLMTasks : StartCall(k) /\ UNCHANGED notSemVars
    \/ \E k \in LLMTasks : Acquire(k) /\ UNCHANGED notSemVars
    \/ \E k \in LLMTasks, o \in {"ok"} \cup OpenAIErrors :
            AttemptEnds(k, o) /\ UNCHANGED notSemVars
    \/ \E k \in LLMTasks : WakeUp(k) /\ UNCHANGED notSemVars

\* the parts other than the generate_steps call
notGenVars == <<busVars, hubVars, poolVars, semVars, task, decomp, hubtask, mem, opt, fact, val, reg, sess>>

LLMClientNext ==
    \/ GenerateStepsCall /\ UNCHANGED notGenVars
    \/ ValidateResponse /\ UNCHANGED notGenVars

\* the parts the controller does not touch
notControllerVars == <<busVars, hubVars, semVars, gen, decomp, hubtask, mem, opt, fact, val, reg, sess>>

ControllerNext ==
    \/ \E d \in BOOLEAN :
            ControllerInit(d) /\ UNCHANGED <<notControllerVars, task>>
    \/ ExecuteTask /\ UNCHANGED notControllerVars

\* the parts the decomposer does not touch
notDecompVars == <<busVars, hubVars, poolVars, semVars, gen, task, hubtask, mem, opt, fact, val, reg, sess>>

DecomposerNext == DecomposeTask /\ UNCHANGED notDecompVars

\* the parts AgentHub.execute_task does not touch
notHubTaskVars == <<busVars, hubVars, poolVars, semVars, gen, task, decomp, mem, opt, fact, val, reg, sess>>

\* AgentHub.execute_task and the pipeline it is the boundary of
TaskBoundaryNext ==
    \/ HubExecuteTask /\ UNCHANGED notHubTaskVars
    \/ ControllerNext

\* the parts the MemoryAgent does not touch
notMemVars == <<busVars, hubVars, poolVars, semVars, gen, task, decomp, hubtask, opt, fact, val, reg, sess>>
notOptVars == <<busVars, hubVars, poolVars, semVars, gen, task, decomp, hubtask, mem, fact, val, reg, sess>>

MemoryNext ==
    \/ \E file \in Files : NewMemoryAgent(file) /\ UNCHANGED notMemVars
    \/ StoreStep /\ UNCHANGED notMemVars

OptimizeNext == OptimizeSteps /\ UNCHANGED notOptVars

\* the parts neither the pipeline nor the MemoryAgent touches
notPipelineStoreVars == <<busVars, hubVars, semVars, gen, decomp, hubtask, opt, fact, val, reg, sess>>

PipelineStoreNext ==
    \/ \E file \in Files :
            NewMemoryAgent(file) /\ UNCHANGED notMemVars
    \/ \E d \in BOOLEAN :
            ControllerInit(d) /\ UNCHANGED <<notControllerVars, task>>
    \/ ExecuteTaskObserved /\ UNCHANGED notPipelineStoreVars

\* the parts driver construction does not touch
notFactoryVars ==
    <<busVars, hubVars, poolVars, semVars, gen, task, decomp, hubtask, mem, opt,
      val, reg, sess>>

DriverFactoryNext ==
    \/ \E p \in {None} \cup VALID_PLATFORMS, f \in {None} \cup VALID_FRAMEWORKS :
            ImportConfig(p, f) /\ UNCHANGED notFactoryVars
    \/ GetOrCreate /\ UNCHANGED notFactoryVars

\* the parts the per-step checks do not touch
notValVars ==
    <<busVars, hubVars, poolVars, semVars, gen, task, decomp, hubtask, mem, opt,
      fact, reg, sess>>

StepValidationNext == GenerateStepsOneStep /\ UNCHANGED notValVars

\* the parts the tool registry does not touch
notRegVars ==
    <<busVars, hubVars, poolVars, semVars, gen, task, decomp, hubtask, mem, opt,
      fact, val, sess>>

ToolRegistryNext ==
    \/ \E name \in ToolNames, tool \in ToolObjects :
            RegisterTool(name, tool) /\ UNCHANGED notRegVars
    \/ \E name \in ToolNames, params \in ToolParams :
            CallTool(name, params) /\ UNCHANGED notRegVars

\* the parts the session manager does not touch
notSessVars ==
    <<busVars, hubVars, poolVars, semVars, gen, task, decomp, hubtask, mem, opt,
      fact, val, reg>>

SessionNext ==
    \/ \E id \in SessionIds : StartSession(id) /\ UNCHANGED notSessVars
    \/ \E k \in DataKeys : GetData(k) /\ UNCHANGED notSessVars
    \/ \E k \in DataKeys, v \in DataValues :
            SetData(k, v) /\ UNCHANGED notSessVars
    \/ EndSession /\ UNCHANGED notSessVars

EventBusSpec == Init /\ [][EventBusNext]_vars
SessionSpec == Init /\ [][SessionNext]_vars
ToolRegistrySpec == Init /\ [][ToolRegistryNext]_vars
StepValidationSpec == Init /\ [][StepValidationNext]_vars
DriverFactorySpec == Init /\ [][DriverFactoryNext]_vars
PipelineStoreSpec == Init /\ [][PipelineStoreNext]_vars
MemorySpec == Init /\ [][MemoryNext]_vars
OptimizeSpec == Init /\ [][OptimizeNext]_vars
TaskBoundarySpec == Init /\ [][TaskBoundaryNext]_vars
DecomposerSpec == Init /\ [][DecomposerNext]_vars
ControllerSpec == Init /\ [][ControllerNext]_vars
LLMClientSpec == Init /\ [][LLMClientNext]_vars
LLMSemaphoreSpec == Init /\ [][LLMSemaphoreNext]_vars
AgentHubSpec == Init /\ [][AgentHubNext]_vars
DriverPoolSeqSpec == Init /\ [][DriverPoolSeqNext]_vars
DriverPoolSpec == Init /\ [][DriverPoolNext]_vars

Next ==
    \/ EventBusNext \/ AgentHubNext
    \/ DriverPoolSeqNext \/ DriverPoolNext
    \/ LLMSemaphoreNext \/ LLMClientNext
    \/ ControllerNext
    \/ DecomposerNext
    \/ TaskBoundaryNext
    \/ MemoryNext
    \/ SessionNext
    \/ ToolRegistryNext
    \/ StepValidationNext
    \/ DriverFactoryNext
    \/ PipelineStoreNext
    \/ OptimizeNext
Spec == Init /\ [][Next]_vars

====
